---- MODULE Spec2Model ----
(***************************************************************************)
(* A model of cate's local data store (cate/ds/local.py): LocalDataStore,  *)
(* a directory of '<id>.json' metadata records and '<id>.lock' lock        *)
(* records shared by several processes, and LocalDataSource, one entry of  *)
(* it.                                                                     *)
(*                                                                         *)
(* Strings are sequences of tokens ("local.A" is <<"local", "A">>), so     *)
(* that concatenation and prefix tests are computed, not assumed.  A       *)
(* string-valued None is the empty sequence; datetimes are integers        *)
(* counted in ticks, TicksPerSec of them to a second.                      *)
(***************************************************************************)
EXTENDS Integers, Sequences, FiniteSets, TLC

(***************************************************************************)
(* Bounds of the model.                                                    *)
(***************************************************************************)
MaxObjs == 3        \* live LocalDataSource objects per process
MaxClock == 2       \* process start times are 1..MaxClock
MaxCalls == 4       \* store calls made in a run, all processes together
MaxRefLen == 2      \* tokens in a ref_id handed to generate_uuid
TicksPerSec == 2    \* sub-second resolution of a datetime

Procs == {1, 2}     \* process ids (a pid is reused by a restarted process)

(***************************************************************************)
(* Python values.                                                          *)
(***************************************************************************)
NoneStr == <<>>                 \* None (or '') where a string is expected
NoCov == <<>>                   \* None where a time range is expected
NoRegion == "NoRegion"          \* None where a region is expected
VarNone == [none |-> TRUE, names |-> <<>>]
VarList(s) == [none |-> FALSE, names |-> s]
VarTruthy(v) == ~v.none /\ v.names # <<>>

Range(s) == {s[i] : i \in DOMAIN s}

RECURSIVE SetToSeq(_)
SetToSeq(S) ==
    IF S = {} THEN <<>>
    ELSE LET x == CHOOSE y \in S : TRUE IN <<x>> \o SetToSeq(S \ {x})

RECURSIVE SortInts(_)
SortInts(S) ==
    IF S = {} THEN <<>>
    ELSE LET m == CHOOSE y \in S : \A z \in S : y <= z
         IN <<m>> \o SortInts(S \ {m})

Get(m, k, default) == IF k \in DOMAIN m THEN m[k] ELSE default

Put(m, k, v) == [x \in DOMAIN m \cup {k} |-> IF x = k THEN v ELSE m[x]]

Del(m, k) == [x \in DOMAIN m \ {k} |-> m[x]]

EmptyMap == [x \in {} |-> 0]

(***************************************************************************)
(* LocalDataSource                                                         *)
(***************************************************************************)
STORE_ID == "local"

\* datetime.replace(microsecond=0)
ReplaceMicrosecond0(t) == (t \div TicksPerSec) * TicksPerSec

\* the 'variables' entry that __init__ derives from the variable names
VariablesInfo(names) == [i \in DOMAIN names |-> [name |-> names[i]]]

\* LocalDataSource.__init__: files is an ordered mapping path -> coverage,
\* here a sequence of <<path, coverage>>.
InitialTemporalCoverage(files, temporal_coverage) ==
    IF temporal_coverage # NoCov THEN temporal_coverage
    ELSE IF Len(files) > 0
         THEN LET first == files[1][2]
                  last == files[Len(files)][2]
              IN IF Len(first) = 2 THEN <<first[1], last[2]>>
                 ELSE IF Len(first) = 1 THEN <<first[1], last[1]>>
                 ELSE NoCov
         ELSE NoCov

NewLocalDataSource(ds_id, files, temporal_coverage, spatial_coverage, variables, meta_info) ==
    LET names == IF VarTruthy(variables) THEN variables.names ELSE <<>>
        meta == IF names # <<>> /\ Get(meta_info, "variables", <<>>) = <<>>
                THEN Put(meta_info, "variables", VariablesInfo(names))
                ELSE meta_info
    IN [id |-> ds_id,
        files |-> files,
        temporal |-> InitialTemporalCoverage(files, temporal_coverage),
        spatial |-> spatial_coverage,
        variables |-> names,
        meta |-> meta,
        complete |-> TRUE]

\* LocalDataSource.variables_info
variables_info(e) == Get(e.meta, "variables", <<>>)

\* LocalDataSource.is_empty
is_empty(e) == Len(e.files) = 0

\* LocalDataSource.to_json_dict with _json_default_serializer
to_json_dict(e) ==
    [name |-> e.id,
     meta_info |-> e.meta,
     files |-> [i \in DOMAIN e.files |->
                  LET item == e.files[i]
                  IN IF item[2] # NoCov
                     THEN <<item[1], ReplaceMicrosecond0(item[2][1]),
                            ReplaceMicrosecond0(item[2][2])>>
                     ELSE <<item[1]>>]]

\* LocalDataSource.from_json_dict: the shape of the first item of 'files'
\* decides how every item is read.
FilesFromJson(files) ==
    IF Len(files) = 0 THEN <<>>
    ELSE IF Len(files[1]) > 2
         THEN [i \in DOMAIN files |->
                 <<files[i][1], <<ReplaceMicrosecond0(files[i][2]),
                                  ReplaceMicrosecond0(files[i][3])>> >>]
         ELSE [i \in DOMAIN files |->
                 IF Len(files[i]) > 1
                 THEN <<files[i][1], <<ReplaceMicrosecond0(files[i][2])>> >>
                 ELSE <<files[i][1], NoCov>>]

from_json_dict(json_dict) ==
    LET meta_info == json_dict.meta_info
        start == Get(meta_info, "temporal_coverage_start", NoCov)
        end == Get(meta_info, "temporal_coverage_end", NoCov)
        temporal_coverage == IF start # NoCov /\ end # NoCov
                             THEN <<start[1], end[1]>> ELSE NoCov
        unnamed == SelectSeq(Get(meta_info, "variables", <<>>),
                             LAMBDA v : v.name = "")
        variables == [i \in DOMAIN unnamed |-> unnamed[i].name]
    IN NewLocalDataSource(json_dict.name, FilesFromJson(json_dict.files),
                          temporal_coverage, NoRegion, VarList(variables), meta_info)

\* from_json_dict raises IndexError when the first item of 'files' carries a
\* coverage and a later one does not (item[1] of a one-element list).
FromJsonRaises(json_dict) ==
    LET files == json_dict.files
    IN /\ Len(files) > 0
       /\ Len(files[1]) > 2
       /\ \E i \in DOMAIN files : Len(files[i]) < 3

(***************************************************************************)
(* LocalDataStore.  A store object lives in one process and works on the   *)
(* shared directory.  An operation is a function of a world                *)
(*   [json, lock, dirs : the directory;                                    *)
(*    heap : the process's LocalDataSource objects, by object identity;    *)
(*    ds, none : _data_sources (a list of objects) and whether it is None] *)
(* so that an operation that calls another is the composition.             *)
(***************************************************************************)
\* the k smallest object identities not in use
FreshOids(h, k) ==
    SubSeq(SortInts((1..(Cardinality(DOMAIN h) + k)) \ DOMAIN h), 1, k)

\* os.listdir: the order is the file system's; the model fixes one
ListDir(names) == SetToSeq(names)

\* a metadata record that json.load cannot decode: empty, cut short, garbled
Corrupt == [corrupt |-> TRUE]

IsCorrupt(rec) == "corrupt" \in DOMAIN rec

\* the names of the two files of an entry in the store directory
JsonFileName(id) == id \o <<".json">>

LockFileName(id) == id \o <<".lock">>

\* f.replace('.json', '.lock'): every occurrence in the name is replaced
ReplaceJsonByLock(f) == [i \in DOMAIN f |-> IF f[i] = ".json" THEN ".lock" ELSE f[i]]

\* the ids whose '.json' file _init_data_sources goes on to read: those for
\* which the replaced name is not the name of a lock file
JsonFiles(w) ==
    {id \in DOMAIN w.json :
        ReplaceJsonByLock(JsonFileName(id)) \notin {LockFileName(l) : l \in DOMAIN w.lock}}

\* a loop that swallows nothing
LoadRaises_always(rec, skip_broken) ==
    IF IsCorrupt(rec) THEN TRUE ELSE FromJsonRaises(rec)

\* _load_data_source of a record raises, and the loop does not swallow it:
\* DataAccessError for a record that does not decode is swallowed if
\* skip_broken, the IndexError of from_json_dict never
LoadRaises(rec, skip_broken) ==
    IF IsCorrupt(rec) THEN ~skip_broken ELSE FromJsonRaises(rec)

\* the loop of _init_data_sources over json_files, left at position stop
\* (beyond the end if nothing is raised)
LoadUpTo(w, json_files, loadable, stop) ==
    [w |-> [w EXCEPT
              !.heap = [o \in DOMAIN w.heap \cup Range(FreshOids(w.heap, Len(loadable))) |->
                          IF o \in DOMAIN w.heap THEN w.heap[o]
                          ELSE from_json_dict(w.json[loadable[
                                 CHOOSE j \in DOMAIN loadable :
                                     FreshOids(w.heap, Len(loadable))[j] = o]])],
              !.ds = FreshOids(w.heap, Len(loadable)),
              !.none = FALSE],
     err |-> IF stop > Len(json_files) THEN "none"
             ELSE IF IsCorrupt(w.json[json_files[stop]]) THEN "DataAccessError"
             ELSE "IndexError"]

LoadFrom(w, json_files, stop) ==
    LoadUpTo(w, json_files,
             SelectSeq(SubSeq(json_files, 1, stop - 1), LAMBDA f : ~IsCorrupt(w.json[f])),
             stop)

FirstRaising(w, json_files, skip_broken) ==
    LET bad == {i \in DOMAIN json_files : LoadRaises(w.json[json_files[i]], skip_broken)}
    IN IF bad = {} THEN Len(json_files) + 1
       ELSE CHOOSE i \in bad : \A j \in bad : i <= j

\* LocalDataStore._init_data_sources(skip_broken); err is the exception that
\* leaves it
LoadDataSources(w, skip_broken) ==
    IF w.ds # <<>> THEN [w |-> w, err |-> "none"]
    ELSE LoadFrom(w, ListDir(JsonFiles(w)),
                  FirstRaising(w, ListDir(JsonFiles(w)), skip_broken))

\* LocalDataStore._init_data_sources()
InitDataSources(w) == LoadDataSources(w, TRUE)

\* DataSource.matches(ds_id=...): an exact match of the id
matches(e, ds_id) == e.id = ds_id

\* the entries of _data_sources that query(ds_id) returns, after
\* _init_data_sources
QueryResult(w, ds_id) ==
    SelectSeq(w.ds, LAMBDA o : matches(w.heap[o], ds_id))

\* a _save_data_source that writes nothing
SaveDataSource_skipped(w, e) == w

\* LocalDataStore._save_data_source
SaveDataSource(w, e) == [w EXCEPT !.json = Put(w.json, e.id, to_json_dict(e))]

\* LocalDataStore.save_data_source
save_data_source(w, e, unlock) ==
    LET w1 == SaveDataSource(w, e)
    IN IF unlock /\ e.id \in DOMAIN w1.lock
       THEN [w1 EXCEPT !.lock = Del(w1.lock, e.id)]
       ELSE w1

\* TimeRangeLike.format, PolygonLike.format, VarNamesLike.format
\* (cate/core/types.py): one canonical rendering each; the variable names
\* are comma-joined in an order that does not depend on the order given.
TimeRangeFormat(time_range) ==
    <<ToString(time_range[1]), ",", ToString(time_range[2])>>

PolygonFormat(region) == <<region>>

VarRank(name) == CHOOSE i \in 1..3 : <<"u", "v", "w">>[i] = name

RECURSIVE JoinNames(_)
JoinNames(names) ==
    IF Len(names) = 0 THEN <<>>
    ELSE IF Len(names) = 1 THEN names
    ELSE <<Head(names), ",">> \o JoinNames(Tail(names))

VarNamesFormat(names) ==
    LET ranks == SortInts({VarRank(names[i]) : i \in DOMAIN names})
    IN JoinNames([i \in DOMAIN ranks |-> <<"u", "v", "w">>[ranks[i]]])

\* str(uuid.uuid3(_NAMESPACE, name)): the hash is taken to be injective, so
\* a key is the string it hashes
uuid3(name) == <<"uuid3">> \o name

\* a generate_uuid that appends the variable names in the order given
generate_uuid_as_given(ref_id, time_range, region, var_names) ==
    LET with_time == IF time_range # NoCov
                     THEN ref_id \o TimeRangeFormat(time_range) ELSE ref_id
        with_region == IF region # NoRegion
                       THEN with_time \o PolygonFormat(region) ELSE with_time
        with_vars == IF VarTruthy(var_names)
                     THEN with_region \o JoinNames(var_names.names)
                     ELSE with_region
    IN uuid3(with_vars)

\* LocalDataStore.generate_uuid
generate_uuid(ref_id, time_range, region, var_names) ==
    LET with_time == IF time_range # NoCov
                     THEN ref_id \o TimeRangeFormat(time_range) ELSE ref_id
        with_region == IF region # NoRegion
                       THEN with_time \o PolygonFormat(region) ELSE with_time
        with_vars == IF VarTruthy(var_names)
                     THEN with_region \o VarNamesFormat(var_names.names)
                     ELSE with_region
    IN uuid3(with_vars)

\* data_source_id.startswith('local.'), else the store id is prefixed
NormalizeId(data_source_id) ==
    IF Len(data_source_id) > 1 /\ Head(data_source_id) = STORE_ID
    THEN data_source_id
    ELSE <<STORE_ID>> \o data_source_id

\* "{}:{}".format(pid, create_time): the one line of a lock record
LockLine(pid, create_time) ==
    [empty |-> FALSE, colon |-> TRUE, pid |-> pid, ts |-> create_time]

\* [(int(val) for val in line.split(":")) if ":" in line else line, -1]:
\* the list display has two elements, the conditional expression and
\* writer_create_time, so writer_pid is bound to a generator object (or to
\* the line itself) and writer_timestamp to -1.
ParseLockLine(line) ==
    [writer_pid |-> IF line.colon THEN [type |-> "generator", val |-> line.pid]
                    ELSE [type |-> "str", val |-> line.pid],
     writer_timestamp |-> -1]

\* psutil.pid_exists(pid) begins with `pid < 0`, which raises TypeError for
\* anything that is not a number
pid_exists(pid, alive) ==
    IF pid.type # "int" THEN "TypeError"
    ELSE IF pid.val \in DOMAIN alive /\ alive[pid.val] THEN "True" ELSE "False"

\* ds.variables_info == var_names: a list of dicts against the names asked for
VariablesInfoEq(info, var_names) ==
    ~var_names.none /\ info = <<>> /\ var_names.names = <<>>

\* LocalDataStore.create_data_source, called in process pid, which started at
\* create_time; os = [alive, start_time] is what psutil reports.
\* result: "created" (a fresh entry), "resumed", or the exception raised.
create_data_source(w, pid, create_time, os, data_source_id, region, title, time_range, var_names, meta_info, lock_file) ==
    LET init == InitDataSources(w)
        w1 == init.w
        meta == IF title # NoneStr THEN Put(meta_info, "title", title) ELSE meta_info
        id == NormalizeId(data_source_id)
        hits == {i \in DOMAIN w1.ds : w1.heap[w1.ds[i]].id = id}
        WriteLock(x) == IF lock_file
                        THEN [x EXCEPT !.lock = Put(x.lock, id, LockLine(pid, create_time))]
                        ELSE x
    IN IF init.err # "none" THEN [w |-> w1, result |-> init.err, oid |-> 0]
       ELSE IF hits # {}
       THEN LET d == w1.ds[CHOOSE i \in hits : \A j \in hits : i <= j]
                line == w1.lock[id]
                parsed == ParseLockLine(line)
                exists == pid_exists(parsed.writer_pid, os.alive)
                writer_create_time ==
                    IF parsed.writer_timestamp > -1
                    THEN os.start_time[parsed.writer_pid.val] ELSE -1
            IN IF ~(lock_file /\ id \in DOMAIN w1.lock) \/ line.empty
               THEN [w |-> w1, result |-> "AlreadyExists", oid |-> 0]
               ELSE IF exists = "TypeError"
               THEN [w |-> w1, result |-> "TypeError", oid |-> 0]
               ELSE IF /\ exists = "True"
                       /\ parsed.writer_pid.val # pid
                       /\ writer_create_time = parsed.writer_timestamp
               THEN [w |-> w1, result |-> "Contention", oid |-> 0]
               ELSE IF /\ w1.heap[d].spatial = region
                       /\ VariablesInfoEq(variables_info(w1.heap[d]), var_names)
               THEN \* resumed; lock_file now names the closed file object,
                    \* which is true, so the lock record is rewritten
                    [w |-> [w1 EXCEPT !.heap[d].complete = FALSE,
                                      !.lock = Put(w1.lock, id, LockLine(pid, create_time))],
                     result |-> "resumed", oid |-> d]
               ELSE [w |-> w1, result |-> "AlreadyExists", oid |-> 0]
       ELSE LET e == [NewLocalDataSource(id, <<>>, time_range, region, var_names, meta)
                        EXCEPT !.complete = FALSE]
                o == FreshOids(w1.heap, 1)[1]
                w2 == [w1 EXCEPT !.heap = Put(w1.heap, o, e)]
            IN [w |-> WriteLock(SaveDataSource(w2, e)), result |-> "created", oid |-> o]

\* LocalDataStore.register_ds
register_ds(w, o) ==
    [w EXCEPT !.heap[o].complete = TRUE, !.ds = Append(w.ds, o)]

\* list.remove: the first occurrence goes
ListRemove(s, x) ==
    LET i == CHOOSE k \in DOMAIN s : s[k] = x /\ \A j \in DOMAIN s : s[j] = x => k <= j
    IN SubSeq(s, 1, i - 1) \o SubSeq(s, i + 1, Len(s))

\* a remove_data_source that forgets the entry and leaves the directory alone
remove_data_source_index_only(w, o, remove_files) ==
    [w EXCEPT !.ds = IF o \in Range(w.ds) THEN ListRemove(w.ds, o) ELSE w.ds]

\* LocalDataStore.remove_data_source(data_source: DataSource)
remove_data_source(w, o, remove_files) ==
    LET id == w.heap[o].id
    IN [w EXCEPT !.json = Del(w.json, id),
                 !.lock = Del(w.lock, id),
                 !.dirs = IF remove_files THEN w.dirs \ {id} ELSE w.dirs,
                 !.ds = IF o \in Range(w.ds) THEN ListRemove(w.ds, o) ELSE w.ds]

\* LocalDataStore.remove_data_source(data_source: str)
remove_data_source_by_id(w, ds_id, remove_files) ==
    LET init == InitDataSources(w)
        found == QueryResult(init.w, ds_id)
    IN IF init.err # "none" THEN [w |-> init.w, err |-> init.err]
       ELSE IF Len(found) # 1 THEN [w |-> init.w, err |-> "none"]
       ELSE [w |-> remove_data_source(init.w, found[1], remove_files), err |-> "none"]

\* an _extend_temporal_coverage that takes the hull of the two ranges
extend_to_hull(current, time_range) ==
    IF time_range = NoCov THEN current
    ELSE IF current = NoCov THEN time_range
    ELSE <<IF time_range[1] < current[1] THEN time_range[1] ELSE current[1],
           IF time_range[2] > current[2] THEN time_range[2] ELSE current[2]>>

\* LocalDataSource._extend_temporal_coverage: the new _temporal_coverage
extend_temporal_coverage(current, time_range) ==
    IF time_range = NoCov THEN current
    ELSE IF current # NoCov
    THEN IF time_range[1] >= current[2] THEN <<current[1], time_range[2]>>
         ELSE IF time_range[2] <= current[1] THEN <<time_range[1], current[2]>>
         ELSE current
    ELSE time_range

\* the sort key of add_dataset: the coverage, or datetime.max without one.
\* A coverage pair is a tuple, anything else a datetime, and Python refuses
\* to compare the two.
KeyIsTuple(cov) == Len(cov) = 2

SortRaises(files) ==
    \E i, j \in DOMAIN files : KeyIsTuple(files[i][2]) # KeyIsTuple(files[j][2])

KeyLess(a, b) ==
    IF KeyIsTuple(a) THEN a[1] < b[1] \/ (a[1] = b[1] /\ a[2] < b[2])
    ELSE IF a = NoCov THEN FALSE
    ELSE IF b = NoCov THEN TRUE
    ELSE a[1] < b[1]

\* sorted(...) is stable: an item goes after the last item not greater than it
RECURSIVE SortFiles(_)
SortFiles(files) ==
    IF Len(files) <= 1 THEN files
    ELSE LET n == Len(files)
             done == SortFiles(SubSeq(files, 1, n - 1))
             x == files[n]
             k == Cardinality({i \in DOMAIN done : ~KeyLess(x[2], done[i][2])})
         IN SubSeq(done, 1, k) \o <<x>> \o SubSeq(done, k + 1, Len(done))

\* add_dataset, from the sort of the manifest on: e is the entry with the
\* file in its manifest, w the world that _extend_temporal_coverage left
SortAndSave(w, o, e) ==
    IF SortRaises(e.files) THEN [w |-> w, err |-> "TypeError"]
    ELSE [w |-> SaveDataSource([w EXCEPT !.heap[o] = [e EXCEPT !.files = SortFiles(e.files)]],
                               [e EXCEPT !.files = SortFiles(e.files)]),
          err |-> "none"]

\* add_dataset, from _extend_temporal_coverage on, which saves the entry
\* before the manifest is sorted
ExtendAndSort(w, o, e, extended) ==
    SortAndSave(IF extended THEN SaveDataSource([w EXCEPT !.heap[o] = e], e)
                ELSE [w EXCEPT !.heap[o] = e],
                o, e)

\* the manifest with the file put in
FilesWith(files, file, time_coverage, update) ==
    LET at == {i \in DOMAIN files : files[i][1] = file}
    IN IF at = {} THEN Append(files, <<file, time_coverage>>)
       ELSE IF ~update THEN files
       ELSE [i \in DOMAIN files |-> IF i \in at THEN <<file, time_coverage>> ELSE files[i]]

\* LocalDataSource.add_dataset (extract_meta_info=False) on object o
add_dataset(w, o, file, time_coverage, update) ==
    LET e == w.heap[o]
        extended == /\ update \/ \A i \in DOMAIN e.files : e.files[i][1] # file
                    /\ time_coverage # NoCov
    IN ExtendAndSort(w, o,
                     [e EXCEPT !.files = FilesWith(e.files, file, time_coverage, update),
                               !.temporal = IF extended
                                            THEN extend_temporal_coverage(e.temporal, time_coverage)
                                            ELSE e.temporal],
                     extended)

\* LocalDataSource.update_temporal_coverage on object o:
\* _extend_temporal_coverage, which saves unless the range is None
update_temporal_coverage(w, o, time_range) ==
    IF time_range = NoCov THEN w
    ELSE SaveDataSource(
           [w EXCEPT !.heap[o].temporal = extend_temporal_coverage(w.heap[o].temporal, time_range)],
           [w.heap[o] EXCEPT !.temporal = extend_temporal_coverage(w.heap[o].temporal, time_range)])

\* a _reduce_temporal_coverage that trims at whatever the removal overlaps
reduce_any_overlap(current, time_range) ==
    IF time_range = NoCov \/ current = NoCov THEN current
    ELSE IF time_range[1] > current[1] /\ time_range[2] >= current[2]
    THEN <<current[1], time_range[1]>>
    ELSE IF time_range[2] < current[2] /\ time_range[1] <= current[1]
    THEN <<time_range[2], current[2]>>
    ELSE current

\* a second `if` that never applies
ReduceAtStart_never(current, time_range) == current

\* the second `if` of _reduce_temporal_coverage, on the coverage the first left
ReduceAtStart(current, time_range) ==
    IF time_range[2] < current[2] /\ time_range[1] = current[1]
    THEN <<time_range[2], current[2]>>
    ELSE current

\* LocalDataSource._reduce_temporal_coverage: the new _temporal_coverage
reduce_temporal_coverage_(current, time_range) ==
    IF time_range = NoCov \/ current = NoCov THEN current
    ELSE ReduceAtStart(IF time_range[1] > current[1] /\ time_range[2] = current[2]
                       THEN <<current[1], time_range[1]>>
                       ELSE current,
                       time_range)

\* the first loop of reduce_temporal_coverage from the i-th file on: removed
\* is files_to_remove (as manifest positions), removing is
\* time_range_to_be_removed.  A file without a coverage pair cannot be
\* subscripted; neither can time_range_to_be_removed while it is None.
RECURSIVE ReduceScan(_, _, _, _, _)
ReduceScan(files, i, time_coverage, removed, removing) ==
    IF i > Len(files) THEN [removed |-> removed, removing |-> removing, err |-> "none"]
    ELSE IF Len(files[i][2]) # 2
    THEN [removed |-> removed, removing |-> removing, err |-> "TypeError"]
    ELSE IF /\ time_coverage[1] <= files[i][2][1] /\ files[i][2][1] <= time_coverage[2]
            /\ time_coverage[1] <= files[i][2][2] /\ files[i][2][2] <= time_coverage[2]
    THEN ReduceScan(files, i + 1, time_coverage, removed \cup {i},
                    IF removing = NoCov THEN files[i][2]
                    ELSE <<removing[1], files[i][2][2]>>)
    ELSE IF time_coverage[1] <= files[i][2][1] /\ files[i][2][1] <= time_coverage[2]
    THEN IF removing = NoCov
         THEN [removed |-> removed, removing |-> removing, err |-> "TypeError"]
         ELSE ReduceScan(files, i + 1, time_coverage, removed, <<removing[1], files[i][2][1]>>)
    ELSE IF time_coverage[1] <= files[i][2][2] /\ files[i][2][2] <= time_coverage[2]
    THEN ReduceScan(files, i + 1, time_coverage, removed, <<files[i][2][2], time_coverage[2]>>)
    ELSE ReduceScan(files, i + 1, time_coverage, removed, removing)

\* a reduce_temporal_coverage that deletes no file
ReduceApply_coverage_only(w, o, scan) ==
    IF scan.err # "none" THEN [w |-> w, err |-> scan.err]
    ELSE [w |-> [w EXCEPT !.heap[o].temporal =
                            reduce_temporal_coverage_(w.heap[o].temporal, scan.removing)],
          err |-> "none"]

\* reduce_temporal_coverage after the first loop returned scan: the files
\* are deleted from the manifest and the coverage is reduced; nothing is saved
ReduceApply(w, o, scan) ==
    IF scan.err # "none" THEN [w |-> w, err |-> scan.err]
    ELSE [w |-> [w EXCEPT
                   !.heap[o].files = SelectSeq(w.heap[o].files,
                                               LAMBDA f : \A i \in scan.removed : w.heap[o].files[i] # f),
                   !.heap[o].temporal = reduce_temporal_coverage_(w.heap[o].temporal, scan.removing)],
          err |-> "none"]

\* LocalDataSource.reduce_temporal_coverage on object o
reduce_temporal_coverage(w, o, time_coverage) ==
    ReduceApply(w, o, ReduceScan(w.heap[o].files, 1, time_coverage, {}, NoCov))

\* os.path.join(local_id, os.path.basename(remote_relative_filepath))
LocalFilePath(local_id, remote_path) ==
    local_id \o <<"/", remote_path[Len(remote_path)]>>

\* the loop of LocalDataSource._make_local over the source's files, from the
\* i-th on: a file with a coverage pair inside the time range is copied (or
\* written as a subset, when a region or variables are asked for) and
\* registered on the local entry o; any other file is passed over.
RECURSIVE MakeLocalFiles(_, _, _, _, _)
\* the loop after add_dataset on the i-th file returned added
AfterAdded(added, files, i, o, time_range) ==
    IF added.err # "none" THEN added
    ELSE MakeLocalFiles(added.w, files, i + 1, o, time_range)

MakeLocalFiles(w, files, i, o, time_range) ==
    IF i > Len(files) THEN [w |-> w, err |-> "none"]
    ELSE IF /\ KeyIsTuple(files[i][2])
            /\ \/ time_range = NoCov
               \/ (files[i][2][1] >= time_range[1] /\ files[i][2][2] <= time_range[2])
    THEN AfterAdded(add_dataset(w, o, LocalFilePath(w.heap[o].id, files[i][1]), files[i][2], FALSE),
                    files, i, o, time_range)
    ELSE MakeLocalFiles(w, files, i + 1, o, time_range)

\* LocalDataSource._make_local of source object src into local entry o
make_local_files(w, src, o, time_range) ==
    MakeLocalFiles([w EXCEPT !.dirs = w.dirs \cup {w.heap[o].id}],
                   w.heap[src].files, 1, o, time_range)

\* make_local after _make_local: an entry left empty is removed again, any
\* other is registered
RegisterOrRemove(filled, local_ds) ==
    IF filled.err # "none"
    THEN [w |-> filled.w, result |-> filled.err, oid |-> 0]
    ELSE IF is_empty(filled.w.heap[local_ds])
    THEN [w |-> remove_data_source(filled.w, local_ds, TRUE), result |-> "None", oid |-> 0]
    ELSE [w |-> register_ds(filled.w, local_ds), result |-> "created", oid |-> local_ds]

\* make_local after create_data_source returned made_ds
Materialise(made_ds, src, time_range) ==
    IF made_ds.result \notin {"created", "resumed"}
    THEN [w |-> made_ds.w, result |-> made_ds.result, oid |-> 0]
    ELSE RegisterOrRemove(IF ~made_ds.w.heap[made_ds.oid].complete
                          THEN make_local_files(made_ds.w, src, made_ds.oid, time_range)
                          ELSE [w |-> made_ds.w, err |-> "none"],
                          made_ds.oid)

\* make_local from the lookup of the local name on; w has the index loaded
LookupOrCreate(w, pid, create_time, os, src, auto, name, _uuid, time_range, region, var_names) ==
    LET existing_ds_list == QueryResult(w, IF auto THEN name ELSE <<STORE_ID>> \o name)
    IN IF Len(existing_ds_list) = 1
       THEN IF auto \/ Get(w.heap[existing_ds_list[1]].meta, "uuid", NoneStr) = _uuid
            THEN [w |-> w, result |-> "existing", oid |-> existing_ds_list[1]]
            ELSE [w |-> w, result |-> "ValueError", oid |-> 0]
       ELSE Materialise(create_data_source(w, pid, create_time, os, name, region, name,
                                           time_range, var_names, w.heap[src].meta, FALSE),
                        src, time_range)

\* the name make_local gives the local entry
LocalName(source_id, local_name, _uuid) ==
    IF local_name = NoneStr THEN <<STORE_ID>> \o source_id \o _uuid ELSE local_name

\* LocalDataSource.make_local of source object src.
\* result: "existing" (an entry of the store is returned), "created" (a new
\* entry was materialised and registered), "None", or the exception raised.
make_local(w, pid, create_time, os, src, local_name, time_range, region, var_names) ==
    IF InitDataSources(w).err # "none"
    THEN [w |-> InitDataSources(w).w, result |-> InitDataSources(w).err, oid |-> 0]
    ELSE LookupOrCreate(InitDataSources(w).w, pid, create_time, os, src,
                        local_name = NoneStr,
                        LocalName(w.heap[src].id, local_name,
                                  generate_uuid(w.heap[src].id, time_range, region, var_names)),
                        generate_uuid(w.heap[src].id, time_range, region, var_names),
                        time_range, region, var_names)

(***************************************************************************)
(* The system: the store directory, and the processes working on it.       *)
(***************************************************************************)
VARIABLES
    json,           \* the directory's '<id>.json' records, by id
    lock,           \* the directory's '<id>.lock' records, by id
    dirs,           \* the ids whose file directory exists
    heap,           \* per process: its LocalDataSource objects
    data_sources,   \* per process: LocalDataStore._data_sources
    ds_none,        \* per process: _data_sources is None
    held,           \* per process: the entries its caller is still building
    alive,          \* per process id: a process with that pid runs
    start_time,     \* per process id: when that process started
    clock,          \* the latest start time handed out
    calls,          \* store calls made so far
    ret,            \* the last store call: who made it, what it saw, what it returned
    building,       \* per process: ids created with a lock and not yet
                    \*   registered, unlocked or removed
    made,           \* per process: the <<id, region, var_names>> it created
                    \*   and has not removed since
    produced,       \* per process: the make_local calls that materialised
                    \*   and registered an entry not removed since
    key_args,       \* the two argument tuples handed to generate_uuid
    key_out,        \* the two keys it returned, <<>> before the calls
    cov_args,       \* a coverage and a time range handed to
                    \*   _extend_temporal_coverage and _reduce_temporal_coverage
    cov_out,        \* the coverage each of them left, <<>> before the call
    writing,        \* per process: the record it has opened for writing and
                    \*   the content json.dump is about to write, <<>> if none
    win_args,       \* the attributes of a source file and the bounds of the
                    \*   region asked for
    win_out,        \* the index window and bounds _make_local computed from
                    \*   them, <<>> before
    sync_args,      \* a source manifest, a request, and what goes wrong and when
                    \*   in a run of _make_local
    sync_out,       \* what that run left, <<>> before
    open_workspaces,\* FSWorkspaceManager._open_workspaces: the base
                    \*   directories of the open workspaces
    ws_ret          \* the last call on the workspace manager

storeVars == <<json, lock, dirs, heap, data_sources, ds_none, held, alive,
               start_time, clock, calls, ret, building, made, produced>>

keyVars == <<key_args, key_out>>

covVars == <<cov_args, cov_out>>

saveVars == <<writing>>

winVars == <<win_args, win_out>>

syncVars == <<sync_args, sync_out>>

wsVars == <<open_workspaces, ws_ret>>

vars == <<storeVars, keyVars, covVars, saveVars, winVars, syncVars, wsVars>>

NoLine == [empty |-> TRUE, colon |-> FALSE, pid |-> 0, ts |-> 0]

NoRet == [pid |-> 0, op |-> "none", id |-> NoneStr, lock_file |-> FALSE,
          result |-> "none", oid |-> 0, existed |-> FALSE, line |-> NoLine, writer_alive |-> FALSE,
          writer_fenced |-> FALSE, same_request |-> FALSE, was_made |-> FALSE,
          known |-> 0, taken |-> 0, time_range |-> NoCov,
                     scanned |-> FALSE, torn |-> 0, before |-> <<>>]

\* before any call on the workspace manager
NoWsRet == [op |-> "none", base_dir |-> <<>>, err |-> "none", before |-> {}, saved |-> {},
            closed |-> {}]

World(p) == [json |-> json, lock |-> lock, dirs |-> dirs, heap |-> heap[p],
             ds |-> data_sources[p], none |-> ds_none[p]]

\* objects no longer referenced are collected
Collect(w, refs) == [o \in (Range(w.ds) \cup refs) \cap DOMAIN w.heap |-> w.heap[o]]

Commit(p, w, refs) ==
    /\ DOMAIN Collect(w, refs) \subseteq 1..MaxObjs
    /\ json' = w.json
    /\ lock' = w.lock
    /\ dirs' = w.dirs
    /\ heap' = [heap EXCEPT ![p] = Collect(w, refs)]
    /\ data_sources' = [data_sources EXCEPT ![p] = w.ds]
    /\ ds_none' = [ds_none EXCEPT ![p] = w.none]
    /\ held' = [held EXCEPT ![p] = refs]

Call(p) ==
    /\ alive[p]
    /\ calls < MaxCalls
    /\ calls' = calls + 1
    /\ UNCHANGED <<alive, start_time, clock>>

Names == {<<"A">>}
\* the <<region, var_names>> a caller asks for
Requests == {<<NoRegion, VarNone>>, <<NoRegion, VarList(<<>>)>>}

EntryB == [name |-> <<STORE_ID, "B">>, meta_info |-> EmptyMap,
           files |-> << <<(<<"B", "/", "f1">>), 0, TicksPerSec>> >>]

\* the store before any call, on a directory that holds the entries in
\* records
StoreInit(records) ==
    /\ json \in records
    /\ lock = EmptyMap
    /\ dirs = DOMAIN json
    /\ heap = [p \in Procs |-> EmptyMap]
    /\ data_sources = [p \in Procs |-> <<>>]
    /\ ds_none = [p \in Procs |-> TRUE]
    /\ held = [p \in Procs |-> {}]
    /\ alive = [p \in Procs |-> TRUE]
    /\ start_time = [p \in Procs |-> 1]
    /\ clock = 1
    /\ calls = 0
    /\ ret = NoRet
    /\ building = [p \in Procs |-> {}]
    /\ made = [p \in Procs |-> {}]
    /\ produced = [p \in Procs |-> {}]
    /\ writing = [p \in Procs |-> <<>>]

Init ==
    /\ StoreInit({EmptyMap, Put(EmptyMap, <<STORE_ID, "B">>, EntryB)})
    /\ key_args = <<>>
    /\ key_out = <<>>
    /\ cov_args = <<>>
    /\ cov_out = <<>>
    /\ win_args = <<>>
    /\ win_out = <<>>
    /\ sync_args = <<>>
    /\ sync_out = <<>>
    /\ open_workspaces = {}
    /\ ws_ret = NoWsRet

\* store.query()
Query(p) ==
    /\ Call(p)
    /\ Commit(p, InitDataSources(World(p)).w, held[p])
    /\ ret' = [NoRet EXCEPT !.pid = p, !.op = "query",
                             !.result = InitDataSources(World(p)).err,
                             !.scanned = (data_sources[p] = <<>>),
                             !.torn = IF data_sources[p] = <<>>
                                      THEN Cardinality({id \in JsonFiles(World(p)) : IsCorrupt(json[id])})
                                      ELSE 0]
    /\ UNCHANGED <<building, made, produced>>

\* store._init_data_sources(skip_broken=False)
LoadStrict(p) ==
    /\ Call(p)
    /\ Commit(p, LoadDataSources(World(p), FALSE).w, held[p])
    /\ ret' = [NoRet EXCEPT !.pid = p, !.op = "load_strict",
                             !.result = LoadDataSources(World(p), FALSE).err,
                             !.scanned = (data_sources[p] = <<>>)]
    /\ UNCHANGED <<building, made, produced>>

\* store.create_data_source(name, region, time_range=, var_names=, lock_file=)
CreateIn(p, name, region, time_range, var_names, lock_file) ==
    LET w == World(p)
        os == [alive |-> alive, start_time |-> start_time]
        r == create_data_source(w, p, start_time[p], os, name, region, NoneStr,
                                time_range, var_names, EmptyMap, lock_file)
        id == NormalizeId(name)
        w1 == InitDataSources(w).w
        hits == {i \in DOMAIN w1.ds : w1.heap[w1.ds[i]].id = id}
        d == w1.ds[CHOOSE i \in hits : \A j \in hits : i <= j]
        line == Get(w1.lock, id, NoLine)
        ok == r.result \in {"created", "resumed"}
    IN /\ Call(p)
       /\ Commit(p, r.w, IF ok THEN held[p] \cup {r.oid} ELSE held[p])
       /\ ret' =    [pid |-> p, op |-> "create", id |-> id, lock_file |-> lock_file,
                     result |-> r.result, oid |-> r.oid,
                     existed |-> hits # {},
                     line |-> line,
                     writer_alive |-> ~line.empty /\ alive[line.pid],
                     writer_fenced |-> ~line.empty /\ start_time[line.pid] = line.ts,
                     same_request |-> /\ hits # {}
                                      /\ w1.heap[d].spatial = region
                                      /\ VariablesInfoEq(variables_info(w1.heap[d]), var_names),
                     was_made |-> <<id, region, var_names>> \in made[p],
                     known |-> 0, taken |-> 0, time_range |-> NoCov,
                     scanned |-> FALSE, torn |-> 0, before |-> <<>>]
       /\ building' = [building EXCEPT ![p] = IF ok /\ lock_file THEN @ \cup {id} ELSE @]
       /\ made' = [made EXCEPT ![p] = IF ok THEN @ \cup {<<id, region, var_names>>} ELSE @]
       /\ UNCHANGED produced

\* store.create_data_source(name, region, var_names=, lock_file=)
Create(p, name, region, var_names, lock_file) ==
    CreateIn(p, name, region, NoCov, var_names, lock_file)

\* store.register_ds(entry), for an entry the caller has been building
RegisterDs(p, o) ==
    /\ o \in held[p]
    /\ Call(p)
    /\ Commit(p, register_ds(World(p), o), held[p] \ {o})
    /\ ret' = [NoRet EXCEPT !.pid = p, !.op = "register", !.oid = o,
                                               !.id = heap[p][o].id]
    /\ building' = [building EXCEPT ![p] = @ \ {heap[p][o].id}]
    /\ UNCHANGED <<made, produced>>

\* entry.add_dataset(file, time_coverage)
AddDataset(p, o, file, time_coverage) ==
    /\ o \in held[p]
    /\ Call(p)
    /\ Commit(p, add_dataset(World(p), o, file, time_coverage, FALSE).w, held[p])
    /\ ret' = [NoRet EXCEPT !.pid = p, !.op = "add_dataset", !.oid = o, !.id = heap[p][o].id,
                             !.result = add_dataset(World(p), o, file, time_coverage, FALSE).err]
    /\ UNCHANGED <<building, made, produced>>

\* entry.update_temporal_coverage(time_range)
UpdateTemporalCoverage(p, o, time_range) ==
    /\ o \in held[p]
    /\ Call(p)
    /\ Commit(p, update_temporal_coverage(World(p), o, time_range), held[p])
    /\ ret' = [NoRet EXCEPT !.pid = p, !.op = "update_temporal_coverage", !.oid = o,
                             !.id = heap[p][o].id, !.time_range = time_range]
    /\ UNCHANGED <<building, made, produced>>

\* entry.reduce_temporal_coverage(time_coverage)
ReduceTemporalCoverage(p, o, time_coverage) ==
    /\ o \in held[p]
    /\ Call(p)
    /\ Commit(p, reduce_temporal_coverage(World(p), o, time_coverage).w, held[p])
    /\ ret' = [NoRet EXCEPT !.pid = p, !.op = "reduce_temporal_coverage", !.oid = o,
                             !.id = heap[p][o].id, !.time_range = time_coverage,
                             !.result = reduce_temporal_coverage(World(p), o, time_coverage).err,
                             !.before = [files |-> heap[p][o].files,
                                         temporal |-> heap[p][o].temporal]]
    /\ UNCHANGED <<building, made, produced>>

\* entry.save(unlock=True)
SaveUnlock(p, o) ==
    /\ o \in held[p]
    /\ Call(p)
    /\ Commit(p, save_data_source(World(p), heap[p][o], TRUE), held[p])
    /\ ret' = [NoRet EXCEPT !.pid = p, !.op = "unlock", !.oid = o,
                                               !.id = heap[p][o].id]
    /\ building' = [building EXCEPT ![p] = @ \ {heap[p][o].id}]
    /\ UNCHANGED <<made, produced>>

\* store.remove_data_source(entry)
Remove(p, o) ==
    /\ o \in DOMAIN heap[p]
    /\ Call(p)
    /\ Commit(p, remove_data_source(World(p), o, TRUE), held[p] \ {o})
    /\ ret' = [NoRet EXCEPT !.pid = p, !.op = "remove", !.oid = o,
                                               !.id = heap[p][o].id]
    /\ building' = [building EXCEPT ![p] = @ \ {heap[p][o].id}]
    /\ made' = [made EXCEPT ![p] = {m \in @ : m[1] # heap[p][o].id}]
    /\ produced' = [produced EXCEPT ![p] = {m \in @ : m.id # heap[p][o].id}]

\* the process dies: its memory is gone, the directory stays as it is
Crash(p) ==
    /\ alive[p]
    /\ clock < MaxClock
    /\ alive' = [alive EXCEPT ![p] = FALSE]
    /\ heap' = [heap EXCEPT ![p] = EmptyMap]
    /\ data_sources' = [data_sources EXCEPT ![p] = <<>>]
    /\ ds_none' = [ds_none EXCEPT ![p] = TRUE]
    /\ held' = [held EXCEPT ![p] = {}]
    /\ UNCHANGED ret
    /\ building' = [building EXCEPT ![p] = {}]
    /\ made' = [made EXCEPT ![p] = {}]
    /\ produced' = [produced EXCEPT ![p] = {}]
    /\ UNCHANGED <<json, lock, dirs, start_time, clock, calls>>

\* a new process is given the pid of a dead one
Start(p) ==
    /\ ~alive[p]
    /\ clock < MaxClock
    /\ clock' = clock + 1
    /\ alive' = [alive EXCEPT ![p] = TRUE]
    /\ start_time' = [start_time EXCEPT ![p] = clock + 1]
    /\ UNCHANGED <<json, lock, dirs, heap, data_sources, ds_none, held, calls,
                   ret, building, made, produced>>

StoreNext ==
    \E p \in Procs :
        \/ Query(p)
        \/ \E name \in Names, req \in Requests, lock_file \in BOOLEAN :
                Create(p, name, req[1], req[2], lock_file)
        \/ \E o \in 1..MaxObjs : RegisterDs(p, o)
        \/ \E o \in 1..MaxObjs : SaveUnlock(p, o)
        \/ \E o \in 1..MaxObjs : Remove(p, o)
        \/ Crash(p)
        \/ Start(p)

Next == StoreNext /\ UNCHANGED <<keyVars, covVars, saveVars, winVars, syncVars, wsVars>>

Spec == Init /\ [][Next]_vars

(***************************************************************************)
(* generate_uuid on its own: two calls on argument tuples drawn from       *)
(* bounded sets.                                                           *)
(***************************************************************************)
RefTokens == {"B", "v"}

RECURSIVE SeqsUpTo(_, _)
SeqsUpTo(S, n) ==
    IF n = 0 THEN {<<>>}
    ELSE LET shorter == SeqsUpTo(S, n - 1)
         IN shorter \cup {Append(q, x) : q \in shorter, x \in S}

RefIds == SeqsUpTo(RefTokens, MaxRefLen) \ {<<>>}

KeyArgs ==
    [ref_id : RefIds,
     time_range : {NoCov, <<0, TicksPerSec>>},
     region : {NoRegion, "R1"},
     var_names : {VarNone, VarList(<<>>), VarList(<<"v">>),
                  VarList(<<"u", "v">>), VarList(<<"v", "u">>)}]

KeyOf(a) == generate_uuid(a.ref_id, a.time_range, a.region, a.var_names)

InitKey ==
    /\ StoreInit({EmptyMap})
    /\ key_args \in KeyArgs \X KeyArgs
    /\ key_out = <<>>
    /\ cov_args = <<>>
    /\ cov_out = <<>>
    /\ win_args = <<>>
    /\ win_out = <<>>
    /\ sync_args = <<>>
    /\ sync_out = <<>>
    /\ open_workspaces = {}
    /\ ws_ret = NoWsRet

GenerateUuid ==
    /\ key_out = <<>>
    /\ key_out' = <<KeyOf(key_args[1]), KeyOf(key_args[2])>>
    /\ UNCHANGED <<key_args, storeVars, covVars, saveVars, winVars, syncVars, wsVars>>

NextKey == GenerateUuid

SpecKey == InitKey /\ [][NextKey]_vars

(***************************************************************************)
(* _extend_temporal_coverage and _reduce_temporal_coverage on their own:   *)
(* one call of each on a coverage and a time range drawn from bounded sets.*)
(***************************************************************************)
MaxTick == 3

Ticks == 0..MaxTick

\* a pair of datetimes, start <= end or not
Pairs == {<<a, b>> : a \in Ticks, b \in Ticks}

WellFormed(r) == r[1] <= r[2]

InitCov ==
    /\ StoreInit({EmptyMap})
    /\ key_args = <<>>
    /\ key_out = <<>>
    /\ cov_args \in [current : Pairs \cup {NoCov}, time_range : Pairs]
    /\ cov_out = <<>>
    /\ win_args = <<>>
    /\ win_out = <<>>
    /\ sync_args = <<>>
    /\ sync_out = <<>>
    /\ open_workspaces = {}
    /\ ws_ret = NoWsRet

ExtendCoverage ==
    /\ cov_out = <<>>
    /\ cov_out' = [op |-> "extend",
                   coverage |-> extend_temporal_coverage(cov_args.current, cov_args.time_range)]
    /\ UNCHANGED <<cov_args, storeVars, keyVars, saveVars, winVars, syncVars, wsVars>>

ReduceCoverage ==
    /\ cov_out = <<>>
    /\ cov_out' = [op |-> "reduce",
                   coverage |-> reduce_temporal_coverage_(cov_args.current, cov_args.time_range)]
    /\ UNCHANGED <<cov_args, storeVars, keyVars, saveVars, winVars, syncVars, wsVars>>

NextCov == ExtendCoverage \/ ReduceCoverage

SpecCov == InitCov /\ [][NextCov]_vars

(***************************************************************************)
(* One entry in the making: a process creates local.A and calls            *)
(* add_dataset, update_temporal_coverage and reduce_temporal_coverage on   *)
(* it, with time ranges that have start <= end.                            *)
(***************************************************************************)
Ranges == {r \in Pairs : WellFormed(r)}

EntryFiles == {<<"A", "/", "f1">>, <<"A", "/", "f2">>}

InitEntry ==
    /\ StoreInit({EmptyMap})
    /\ key_args = <<>>
    /\ key_out = <<>>
    /\ cov_args = <<>>
    /\ cov_out = <<>>
    /\ win_args = <<>>
    /\ win_out = <<>>
    /\ sync_args = <<>>
    /\ sync_out = <<>>
    /\ open_workspaces = {}
    /\ ws_ret = NoWsRet

NextEntry ==
    /\ UNCHANGED <<keyVars, covVars, saveVars, winVars, syncVars, wsVars>>
    /\ \/ \E time_range \in Ranges \cup {NoCov}, var_names \in {VarNone, VarList(<<"v">>)} :
               CreateIn(1, <<"A">>, NoRegion, time_range, var_names, FALSE)
       \/ \E o \in 1..MaxObjs, file \in EntryFiles, time_coverage \in Ranges \cup {NoCov} :
               AddDataset(1, o, file, time_coverage)
       \/ \E o \in 1..MaxObjs, time_range \in Ranges : UpdateTemporalCoverage(1, o, time_range)
       \/ \E o \in 1..MaxObjs, time_range \in Ranges : ReduceTemporalCoverage(1, o, time_range)

SpecEntry == InitEntry /\ [][NextEntry]_vars

(***************************************************************************)
(* Loading a directory: the store directory holds any mix of records that  *)
(* load, records that do not decode and records whose files are of mixed   *)
(* shape, with and without a lock record, under ids one of which contains  *)
(* '.json'.                                                                *)
(***************************************************************************)
ScanIds == {<<STORE_ID, "A">>, <<STORE_ID, "B">>, <<STORE_ID, "A", ".json">>}

\* the record of an entry with one file
GoodRecord(id) ==
    [name |-> id, meta_info |-> EmptyMap, files |-> << <<id \o <<"/", "f1">>, 0, TicksPerSec>> >>]

\* the record of an entry that has a file with a coverage and one without
MixedRecord(id) ==
    [name |-> id, meta_info |-> EmptyMap,
     files |-> << <<id \o <<"/", "f1">>, 0, TicksPerSec>>, <<id \o <<"/", "f2">>>> >>]

RecordsOf(id) == {GoodRecord(id), MixedRecord(id), Corrupt}

Directories ==
    UNION {[ids -> UNION {RecordsOf(id) : id \in ids}] : ids \in SUBSET ScanIds}

InitScan ==
    /\ StoreInit({d \in Directories : \A id \in DOMAIN d : d[id] \in RecordsOf(id)})
    /\ key_args = <<>>
    /\ key_out = <<>>
    /\ cov_args = <<>>
    /\ cov_out = <<>>
    /\ win_args = <<>>
    /\ win_out = <<>>
    /\ sync_args = <<>>
    /\ sync_out = <<>>
    /\ open_workspaces = {}
    /\ ws_ret = NoWsRet

\* a lock record appears for an entry that some process outside is creating
LockAppears(id) ==
    /\ calls = 0
    /\ id \notin DOMAIN lock
    /\ lock' = Put(lock, id, LockLine(2, 1))
    /\ UNCHANGED <<json, dirs, heap, data_sources, ds_none, held, alive, start_time,
                   clock, calls, ret, building, made, produced>>

NextScan ==
    /\ UNCHANGED <<keyVars, covVars, saveVars, winVars, syncVars, wsVars>>
    /\ \/ Query(1)
       \/ LoadStrict(1)
       \/ \E id \in ScanIds : LockAppears(id)

SpecScan == InitScan /\ [][NextScan]_vars

(***************************************************************************)
(* A save in steps: process 1 creates local.A and adds files to it, and    *)
(* _save_data_source is the two steps it is on the file system, the        *)
(* open(file_name, 'w') that truncates the record and the json.dump that   *)
(* writes it; process 2 loads the directory at any moment.                 *)
(***************************************************************************)
Writer == 1

Reader == 2

InitTorn ==
    /\ StoreInit({EmptyMap, Put(EmptyMap, <<STORE_ID, "B">>, EntryB)})
    /\ key_args = <<>>
    /\ key_out = <<>>
    /\ cov_args = <<>>
    /\ cov_out = <<>>
    /\ win_args = <<>>
    /\ win_out = <<>>
    /\ sync_args = <<>>
    /\ sync_out = <<>>
    /\ open_workspaces = {}
    /\ ws_ret = NoWsRet

\* entry.add_dataset(file, time_coverage) up to the open(file_name, 'w') of
\* its last _save_data_source: the record is there and empty
BeginAddDataset(p, o, file, time_coverage) ==
    LET r == add_dataset(World(p), o, file, time_coverage, FALSE)
        id == heap[p][o].id
    IN /\ o \in held[p]
       /\ writing[p] = <<>>
       /\ r.err = "none"
       /\ Call(p)
       /\ Commit(p, [r.w EXCEPT !.json = Put(json, id, Corrupt)], held[p])
       /\ writing' = [writing EXCEPT ![p] = [id |-> id, content |-> r.w.json[id]]]
       /\ ret' = [NoRet EXCEPT !.pid = p, !.op = "add_dataset", !.oid = o, !.id = id]
       /\ UNCHANGED <<building, made, produced>>

\* json.dump(json_dict, fp) and the close of the file
EndSave(p) ==
    /\ writing[p] # <<>>
    /\ json' = Put(json, writing[p].id, writing[p].content)
    /\ writing' = [writing EXCEPT ![p] = <<>>]
    /\ UNCHANGED <<lock, dirs, heap, data_sources, ds_none, held, alive, start_time,
                   clock, calls, ret, building, made, produced>>

NextTorn ==
    /\ UNCHANGED <<keyVars, covVars, winVars, syncVars, wsVars>>
    /\ \/ /\ writing[Writer] = <<>>
          /\ CreateIn(Writer, <<"A">>, NoRegion, NoCov, VarNone, FALSE)
          /\ UNCHANGED writing
       \/ \E o \in 1..MaxObjs, file \in EntryFiles, time_coverage \in Ranges \cup {NoCov} :
               BeginAddDataset(Writer, o, file, time_coverage)
       \/ EndSave(Writer)
       \/ Query(Reader) /\ UNCHANGED writing

SpecTorn == InitTorn /\ [][NextTorn]_vars

(***************************************************************************)
(* reduce_temporal_coverage on an entry constructed from a manifest: up to *)
(* three files in any order, each with a coverage that has start <= end or *)
(* without one.                                                            *)
(***************************************************************************)
ManifestFiles == <<(<<"A", "/", "f1">>), (<<"A", "/", "f2">>), (<<"A", "/", "f3">>)>>

Manifests ==
    UNION {{[i \in 1..n |-> <<ManifestFiles[i], cov[i]>>] : cov \in [1..n -> Ranges \cup {NoCov}]} :
             n \in 0..Len(ManifestFiles)}

\* __init__ raises TypeError when the first file of the manifest has a
\* coverage pair and the last has none (files_range[files_number - 1][1])
InitRaises(files) ==
    /\ Len(files) > 0
    /\ KeyIsTuple(files[1][2])
    /\ ~KeyIsTuple(files[Len(files)][2])

\* process 1 holds LocalDataSource('local.A', files) for a manifest files
InitReduce ==
    /\ \E files \in {m \in Manifests : ~InitRaises(m)} :
         heap = [p \in Procs |->
                   IF p = 1
                   THEN Put(EmptyMap, 1, NewLocalDataSource(<<STORE_ID, "A">>, files, NoCov,
                                                            NoRegion, VarNone, EmptyMap))
                   ELSE EmptyMap]
    /\ held = [p \in Procs |-> IF p = 1 THEN {1} ELSE {}]
    /\ json = EmptyMap
    /\ lock = EmptyMap
    /\ dirs = {}
    /\ data_sources = [p \in Procs |-> <<>>]
    /\ ds_none = [p \in Procs |-> TRUE]
    /\ alive = [p \in Procs |-> TRUE]
    /\ start_time = [p \in Procs |-> 1]
    /\ clock = 1
    /\ calls = 0
    /\ ret = NoRet
    /\ building = [p \in Procs |-> {}]
    /\ made = [p \in Procs |-> {}]
    /\ produced = [p \in Procs |-> {}]
    /\ writing = [p \in Procs |-> <<>>]
    /\ key_args = <<>>
    /\ key_out = <<>>
    /\ cov_args = <<>>
    /\ cov_out = <<>>
    /\ win_args = <<>>
    /\ win_out = <<>>
    /\ sync_args = <<>>
    /\ sync_out = <<>>
    /\ open_workspaces = {}
    /\ ws_ret = NoWsRet

NextReduce ==
    /\ UNCHANGED <<keyVars, covVars, saveVars, winVars, syncVars, wsVars>>
    /\ \E time_coverage \in Ranges : ReduceTemporalCoverage(1, 1, time_coverage)

SpecReduce == InitReduce /\ [][NextReduce]_vars

(***************************************************************************)
(* A locked creation in steps: create_data_source(lock_file=True) for a    *)
(* new id is the two writes it makes, the metadata record first and the    *)
(* lock record after it; process 2 loads the directory at any moment.      *)
(***************************************************************************)
NewNames == {<<"A">>, <<"C">>, <<"D">>}

\* create_data_source(name, lock_file=True) up to and including
\* self._save_data_source(data_source), for an id not in the index
BeginCreate(p, name) ==
    LET os == [alive |-> alive, start_time |-> start_time]
        r == create_data_source(World(p), p, start_time[p], os, name, NoRegion, NoneStr,
                                NoCov, VarNone, EmptyMap, TRUE)
        id == NormalizeId(name)
    IN /\ writing[p] = <<>>
       /\ r.result = "created"
       /\ Call(p)
       /\ Commit(p, [r.w EXCEPT !.lock = lock], held[p] \cup {r.oid})
       /\ writing' = [writing EXCEPT ![p] = [id |-> id, line |-> r.w.lock[id]]]
       /\ ret' = [NoRet EXCEPT !.pid = p, !.op = "create", !.id = id, !.lock_file = TRUE,
                               !.result = r.result, !.oid = r.oid]
       /\ building' = [building EXCEPT ![p] = @ \cup {id}]
       /\ UNCHANGED <<made, produced>>

\* the open(lock_filepath, 'w') and write of the lock record
WriteLock(p) ==
    /\ writing[p] # <<>>
    /\ lock' = Put(lock, writing[p].id, writing[p].line)
    /\ writing' = [writing EXCEPT ![p] = <<>>]
    /\ UNCHANGED <<json, dirs, heap, data_sources, ds_none, held, alive, start_time,
                   clock, calls, ret, building, made, produced>>

NextCreate ==
    /\ UNCHANGED <<keyVars, covVars, winVars, syncVars, wsVars>>
    /\ \/ \E name \in NewNames : BeginCreate(Writer, name)
       \/ WriteLock(Writer)
       \/ Query(Reader) /\ UNCHANGED writing

SpecCreate == InitTorn /\ [][NextCreate]_vars

(***************************************************************************)
(* make_local: one process materialising local entries from the source     *)
(* entry local.S of its store.                                             *)
(***************************************************************************)
\* the files of a manifest that _make_local takes for time_range: those
\* with a coverage pair lying within it
Taken(files, time_range) ==
    {i \in DOMAIN files :
        /\ Len(files[i][2]) = 2
        /\ \/ time_range = NoCov
           \/ (time_range[1] <= files[i][2][1] /\ files[i][2][2] <= time_range[2])}

\* source.make_local(local_name, time_range=, region=, var_names=)
MakeLocal(p, src, local_name, time_range, region, var_names) ==
    LET os == [alive |-> alive, start_time |-> start_time]
        r == make_local(World(p), p, start_time[p], os, src, local_name,
                        time_range, region, var_names)
        args == [source |-> heap[p][src].id, local_name |-> local_name,
                 time_range |-> time_range, region |-> region, var_names |-> var_names]
        before == {m \in produced[p] : m.args = args}
    IN /\ src \in Range(data_sources[p])
       /\ Call(p)
       /\ Commit(p, r.w, held[p])
       /\ ret' =    [NoRet EXCEPT !.pid = p, !.op = "make_local",
                                  !.result = r.result, !.oid = r.oid,
                                  !.id = IF r.oid # 0 THEN r.w.heap[r.oid].id
                                         ELSE IF r.result = "None"
                                         THEN NormalizeId(LocalName(heap[p][src].id, local_name,
                                                  generate_uuid(heap[p][src].id, time_range,
                                                                region, var_names)))
                                         ELSE NoneStr,
                                  !.taken = Cardinality(Taken(heap[p][src].files, time_range)),
                                  !.time_range = time_range,
                                  !.known = IF before = {} THEN 0
                                            ELSE (CHOOSE m \in before : TRUE).oid]
       /\ produced' = [produced EXCEPT ![p] =
                         IF r.result = "created"
                         THEN @ \cup {[args |-> args, oid |-> r.oid, id |-> r.w.heap[r.oid].id]}
                         ELSE @]
       /\ UNCHANGED <<building, made>>

\* the source entry: two files of adjacent coverage, and the key of the
\* source it was itself made from, if any
EntryS(meta) ==
    [name |-> <<STORE_ID, "S">>, meta_info |-> meta,
     files |-> << <<(<<"S", "/", "f1">>), 0, TicksPerSec>>,
                  <<(<<"S", "/", "f2">>), TicksPerSec, 2 * TicksPerSec>> >>]

InitLocal ==
    /\ StoreInit({Put(EmptyMap, <<STORE_ID, "S">>, EntryS(meta)) :
                    meta \in {EmptyMap, Put(EmptyMap, "uuid", uuid3(<<"S">>))}})
    /\ key_args = <<>>
    /\ key_out = <<>>
    /\ cov_args = <<>>
    /\ cov_out = <<>>
    /\ win_args = <<>>
    /\ win_out = <<>>
    /\ sync_args = <<>>
    /\ sync_out = <<>>
    /\ open_workspaces = {}
    /\ ws_ret = NoWsRet

LocalNames == {NoneStr, <<"A">>}
TimeRanges == {NoCov, <<0, TicksPerSec>>, <<2 * TicksPerSec, 3 * TicksPerSec>>}

NextLocal ==
    /\ UNCHANGED <<keyVars, covVars, saveVars, winVars, syncVars, wsVars>>
    /\ \/ Query(1)
       \/ \E src \in 1..MaxObjs, local_name \in LocalNames, time_range \in TimeRanges,
             req \in Requests :
               MakeLocal(1, src, local_name, time_range, req[1], req[2])
       \/ \E o \in 1..MaxObjs : Remove(1, o)

SpecLocal == InitLocal /\ [][NextLocal]_vars

(***************************************************************************)
(* The spatial subset of _make_local: a source file declares a bounding    *)
(* box and a resolution per axis, each axis ascending or descending, and   *)
(* the region asked for lies inside the box.  Coordinates are integers,    *)
(* in a unit that divides every resolution.                                *)
(***************************************************************************)
MaxRes == 2

MaxCells == 2

\* one axis of the file: geospatial_*_min, geospatial_*_resolution, the
\* number of grid cells, and whether the coordinate decreases
Axes == [geo_min : {0, 1}, res : 1..MaxRes, cells : 1..MaxCells, descending : BOOLEAN]

\* geospatial_*_max
GeoMax(axis) == axis.geo_min + axis.res * axis.cells

\* the <<min, max>> intervals inside the declared interval of an axis
Inside(axis) ==
    {<<lo, hi>> \in (axis.geo_min..GeoMax(axis)) \X (axis.geo_min..GeoMax(axis)) : lo <= hi}

WinArgs ==
    UNION {[lat : {lat}, lon : {lon}, lat_range : Inside(lat), lon_range : Inside(lon)] :
             lat \in Axes, lon \in Axes}

\* int(floor(x / res)) and int(ceil(x / res)) for x >= 0
Floor(x, res) == x \div res

Ceil(x, res) == (x + res - 1) \div res

\* one axis of lines 282-322: the offsets of the range asked for, the index
\* window, and the bounds computed from it, with the resolution res in use
IndexWindow(geo_min, geo_max, res, descending, lo, hi) ==
    LET off_min == IF ~descending THEN lo - geo_min ELSE geo_max - hi
        off_max == IF ~descending THEN hi - geo_min ELSE geo_max - lo
        i_min == Floor(off_min, res)
        i_max == Ceil(off_max, res)
    IN [i_min |-> i_min, i_max |-> i_max,
        geo_min |-> IF ~descending THEN i_min * res + geo_min ELSE geo_max - i_max * res,
        geo_max |-> IF ~descending THEN i_max * res + geo_min ELSE geo_max - i_min * res]

\* lines 258-322 of _make_local: geo_lat_res is read from
\* 'geospatial_lon_resolution' and geo_lon_res from 'geospatial_lat_resolution'
SubsetWindow(a) ==
    LET geo_lat_res == a.lon.res
        geo_lon_res == a.lat.res
    IN [lat |-> IndexWindow(a.lat.geo_min, GeoMax(a.lat), geo_lat_res, a.lat.descending,
                            a.lat_range[1], a.lat_range[2]),
        lon |-> IndexWindow(a.lon.geo_min, GeoMax(a.lon), geo_lon_res, a.lon.descending,
                            a.lon_range[1], a.lon_range[2])]

\* region.bounds and the bounds written to the local file, as
\* <<lon_min, lat_min, lon_max, lat_max>>
RequestedBounds(a) == <<a.lon_range[1], a.lat_range[1], a.lon_range[2], a.lat_range[2]>>

AchievedBounds(a) ==
    <<SubsetWindow(a).lon.geo_min, SubsetWindow(a).lat.geo_min,
      SubsetWindow(a).lon.geo_max, SubsetWindow(a).lat.geo_max>>

\* the region of the request; its bounds are RequestedBounds(win_args)
TheRegion == "R1"

\* spatial_coverage().bounds of an entry
RecordedBounds(spatial) ==
    IF spatial = TheRegion THEN RequestedBounds(win_args) ELSE <<>>

InitWindow ==
    /\ StoreInit({EmptyMap})
    /\ key_args = <<>>
    /\ key_out = <<>>
    /\ cov_args = <<>>
    /\ cov_out = <<>>
    /\ win_args \in WinArgs
    /\ win_out = <<>>
    /\ sync_args = <<>>
    /\ sync_out = <<>>
    /\ open_workspaces = {}
    /\ ws_ret = NoWsRet

\* the region branch of _make_local on one file
Window ==
    /\ win_out = <<>>
    /\ win_out' = SubsetWindow(win_args)
    /\ UNCHANGED <<win_args, storeVars, keyVars, covVars, saveVars, syncVars, wsVars>>

NextWindow == Window

SpecWindow == InitWindow /\ [][NextWindow]_vars

(***************************************************************************)
(* make_local with a region: the source local.S is materialised for a      *)
(* region inside the box its files declare, both axes alike.               *)
(***************************************************************************)
RegionArgs == {a \in WinArgs : a.lat = a.lon}

InitRegion ==
    /\ StoreInit({Put(EmptyMap, <<STORE_ID, "S">>, EntryS(EmptyMap))})
    /\ key_args = <<>>
    /\ key_out = <<>>
    /\ cov_args = <<>>
    /\ cov_out = <<>>
    /\ win_args \in RegionArgs
    /\ win_out = <<>>
    /\ sync_args = <<>>
    /\ sync_out = <<>>
    /\ open_workspaces = {}
    /\ ws_ret = NoWsRet

NextRegion ==
    /\ UNCHANGED <<keyVars, covVars, saveVars, winVars, syncVars, wsVars>>
    /\ \/ Query(1)
       \/ \E src \in 1..MaxObjs : MakeLocal(1, src, NoneStr, NoCov, TheRegion, VarNone)

SpecRegion == InitRegion /\ [][NextRegion]_vars

(***************************************************************************)
(* make_local of a whole source: the source entry local.S lists NFiles      *)
(* files of pairwise-adjacent coverage, in any order and under any paths.  *)
(***************************************************************************)
NFiles == 3

\* the coverage of the k-th segment, and of all of them
Segment(k) == <<(k - 1) * TicksPerSec, k * TicksPerSec>>
FullRange == <<0, NFiles * TicksPerSec>>

\* relative paths of source files: two directories, two file names
SourcePaths == {<<"S", "/", d, "/", f>> : d \in {"a", "b"}, f \in {"f", "g"}}

Injections(n, S) == {q \in [1..n -> S] : \A i, j \in 1..n : i # j => q[i] # q[j]}

\* the record of local.S: the i-th file listed is paths[i], of segment order[i]
EntryOf(paths, order) ==
    [name |-> <<STORE_ID, "S">>, meta_info |-> EmptyMap,
     files |-> [i \in 1..NFiles |-> <<paths[i], Segment(order[i])[1], Segment(order[i])[2]>>]]

InitFull ==
    /\ StoreInit({Put(EmptyMap, <<STORE_ID, "S">>, EntryOf(paths, order)) :
                    paths \in Injections(NFiles, SourcePaths),
                    order \in Injections(NFiles, 1..NFiles)})
    /\ key_args = <<>>
    /\ key_out = <<>>
    /\ cov_args = <<>>
    /\ cov_out = <<>>
    /\ win_args = <<>>
    /\ win_out = <<>>
    /\ sync_args = <<>>
    /\ sync_out = <<>>
    /\ open_workspaces = {}
    /\ ws_ret = NoWsRet

NextFull ==
    /\ UNCHANGED <<keyVars, covVars, saveVars, winVars, syncVars, wsVars>>
    /\ \/ Query(1)
       \/ \E src \in 1..MaxObjs, local_name \in LocalNames, time_range \in {NoCov, FullRange} :
               MakeLocal(1, src, local_name, time_range, NoRegion, VarNone)

SpecFull == InitFull /\ [][NextFull]_vars

(***************************************************************************)
(* Properties of the store.                                                *)
(***************************************************************************)
\* process p made the store call that this step is
Returned(p) == calls' = calls + 1 /\ ret'.pid = p

\* the call was create_data_source(lock_file=True) for an id found in the
\* caller's index, with a non-empty lock record on disk
LockedCreate(r) ==
    r.op = "create" /\ r.lock_file /\ r.existed /\ ~r.line.empty

\* C1: two live processes never both hold a successful
\* create_data_source(id, lock_file=True) for the same id while neither has
\* registered, unlocked or removed it.
C1_MutualExclusion ==
    \A p, q \in Procs :
        (p # q /\ alive[p] /\ alive[q]) => building[p] \cap building[q] = {}

\* C2: create_data_source(lock_file=True) for an id in the index whose lock
\* record names another process that is alive and started at the recorded
\* time fails with the contention error and leaves the entry, the metadata
\* record and the lock record as they were.
C2_Contention ==
    [][\A p \in Procs :
         (/\ Returned(p)
          /\ LockedCreate(ret')
          /\ ret'.line.pid # p
          /\ ret'.writer_alive
          /\ ret'.writer_fenced)
         => /\ ret'.result = "Contention"
            /\ json' = json
            /\ lock' = lock
            /\ \A o \in DOMAIN heap[p] : o \in DOMAIN heap'[p] /\ heap'[p][o] = heap[p][o]]_vars

\* C3: create_data_source(lock_file=True) for an id in the index whose lock
\* record names a dead process, the entry's spatial coverage and variables
\* matching the request, returns that entry of the index, marked incomplete,
\* and rewrites the lock record with the caller's pid and start time.
C3_ResumeOnStaleLock ==
    [][\A p \in Procs :
         (/\ Returned(p)
          /\ LockedCreate(ret')
          /\ ~ret'.writer_alive
          /\ ret'.same_request)
         => /\ ret'.result = "resumed"
            /\ ret'.oid \in Range(data_sources'[p])
            /\ ~heap'[p][ret'.oid].complete
            /\ Cardinality(DOMAIN json') = Cardinality(DOMAIN json)
            /\ lock'[ret'.id] = LockLine(p, start_time[p])]_vars

C5_AlreadyExists ==
    (ret.op = "create" /\ ~ret.lock_file /\ ret.was_made)
        => ret.result = "AlreadyExists"

\* C6: when create_data_source returns a fresh entry, the entry has no files
\* and is incomplete, its metadata record is on disk, and the lock record is
\* '<pid>:<start time>' of the caller if lock_file was asked for and is not
\* written otherwise.
C6_FreshCreation ==
    [][\A p \in Procs :
         (Returned(p) /\ ret'.op = "create" /\ ret'.result = "created")
         => LET o == ret'.oid
                id == ret'.id
            IN /\ heap'[p][o].id = id
               /\ heap'[p][o].files = <<>>
               /\ ~heap'[p][o].complete
               /\ id \in DOMAIN json'
               /\ json'[id].name = id
               /\ IF ret'.lock_file
                  THEN id \in DOMAIN lock' /\ lock'[id] = LockLine(p, start_time[p])
                  ELSE lock' = lock]_vars

C6_Witness ==
    /\ ret.op = "create" /\ ret.result = "created" /\ ret.lock_file
    /\ ret.id \in DOMAIN json
    /\ ret.id \in DOMAIN lock
    /\ lock[ret.id] = LockLine(ret.pid, start_time[ret.pid])
    /\ heap[ret.pid][ret.oid].files = <<>>
    /\ ~heap[ret.pid][ret.oid].complete

\* C7: the index that query() returns holds at most one entry per id.
C7_IdUniqueness ==
    \A p \in Procs :
        \A i, j \in DOMAIN data_sources[p] :
            i # j => heap[p][data_sources[p][i]].id # heap[p][data_sources[p][j]].id

\* C8: once make_local has materialised and registered an entry for a source,
\* time range, region, variable names and local_name, a second make_local
\* with the same arguments returns that entry, materialises nothing, creates
\* no entry and raises no error.
C8_Deduplication ==
    [][\A p \in Procs :
         (Returned(p) /\ ret'.op = "make_local" /\ ret'.known # 0)
         => /\ ret'.result = "existing"
            /\ ret'.oid = ret'.known
            /\ json' = json
            /\ dirs' = dirs
            /\ data_sources'[p] = data_sources[p]]_vars

\* what a store object built afresh on the directory would load
FreshLoad == InitDataSources([json |-> json, lock |-> lock, dirs |-> dirs,
                              heap |-> EmptyMap, ds |-> <<>>, none |-> TRUE]).w

\* C11: a make_local that creates its target entry and takes none of the
\* source's files returns None and leaves neither the metadata record nor the
\* file directory of the target; no query, by this store or by one loaded
\* afresh, returns an entry of that id.
C11_EmptyResult ==
    (/\ ret.op = "make_local"
     /\ ret.result \in {"created", "None"}
     /\ ret.taken = 0)
    => /\ ret.result = "None"
       /\ ret.id # NoneStr
       /\ ret.id \notin DOMAIN json
       /\ ret.id \notin dirs
       /\ QueryResult(InitDataSources(World(ret.pid)).w, ret.id) = <<>>
       /\ QueryResult(FreshLoad, ret.id) = <<>>

C11_Witness ==
    /\ ret.op = "make_local" /\ ret.result = "None"
    /\ ret.time_range = <<2 * TicksPerSec, 3 * TicksPerSec>>
    /\ ret.id \notin DOMAIN json
    /\ ret.id \notin dirs
    /\ QueryResult(FreshLoad, ret.id) = <<>>

\* C12: make_local of the full range of a source of NFiles files of
\* pairwise-adjacent coverage, with no region and no variables, registers
\* exactly those files on the local entry and leaves its temporal coverage
\* the full range, in whatever order the source lists the files.
C12_FullRange ==
    (/\ ret.op = "make_local"
     /\ ret.result \in {"created", "None"}
     /\ ret.time_range = FullRange
     /\ ret.taken = NFiles)
    => /\ ret.result = "created"
       /\ LET e == heap[ret.pid][ret.oid]
          IN /\ Len(e.files) = NFiles
             /\ {e.files[i][2] : i \in DOMAIN e.files} = {Segment(k) : k \in 1..NFiles}
             /\ e.temporal = FullRange

(***************************************************************************)
(* Properties of loading the directory.                                    *)
(***************************************************************************)
\* the ids of the entries in the index of process p
LoadedIds(p) == {heap[p][o].id : o \in Range(data_sources[p])}

\* C18: a load of the directory that returns leaves in the index an entry
\* for exactly the records that decode and have no lock record beside them.
C18_ScanPolicy ==
    (ret.scanned /\ ret.result = "none")
    => LoadedIds(ret.pid) = {id \in DOMAIN json : ~IsCorrupt(json[id]) /\ id \notin DOMAIN lock}

C20_NoTornReads ==
    (ret.op = "query" /\ ret.pid = Reader /\ ret.scanned) => ret.torn = 0

\* C21: an entry that some process is still building (created or resumed,
\* register_ds not yet called for it) is complete in no process's index.
C21_CompletionFlag ==
    \A p \in Procs, q \in Procs :
        \A o \in held[p], d \in Range(data_sources[q]) :
            heap[q][d].id = heap[p][o].id => ~heap[q][d].complete

(***************************************************************************)
(* Properties of reduce_temporal_coverage.                                 *)
(***************************************************************************)
\* the coverage of file f lies inside the range r
FullyInside(f, r) == r[1] <= f[2][1] /\ f[2][2] <= r[2]

\* the last call was a reduce_temporal_coverage that returned
Reduced == ret.op = "reduce_temporal_coverage" /\ ret.result = "none"

\* the manifest of the entry the last call was made on
FilesNow == heap[ret.pid][ret.oid].files

\* first start and last end of a manifest of ranged files
Hull(files) == <<files[1][2][1], files[Len(files)][2][2]>>

\* the files have coverages, each ending where the next starts
Adjacent(files) ==
    /\ \A i \in DOMAIN files : KeyIsTuple(files[i][2])
    /\ \A i \in DOMAIN files : i < Len(files) => files[i][2][2] = files[i + 1][2][1]

\* the positions of the files inside r
InsideSet(files, r) == {i \in DOMAIN files : FullyInside(files[i], r)}

\* C27: when reduce_temporal_coverage returns, the manifest is the manifest
\* of before without the files whose coverage lies inside the removal
\* range, the others in their order and with their coverages.
C27_RemovedPartition ==
    Reduced
    => FilesNow = SelectSeq(ret.before.files, LAMBDA f : ~FullyInside(f, ret.time_range))

C27_Witness ==
    /\ Reduced
    /\ Len(FilesNow) = 1
    /\ Len(ret.before.files) = 3

\* the files inside r are the first k or the last k of the manifest, and
\* not all of it
EdgeRemoval(files, r) ==
    \E k \in 1..(Len(files) - 1) :
        InsideSet(files, r) = 1..k \/ InsideSet(files, r) = (Len(files) - k + 1)..Len(files)

\* C28: on an entry whose files have adjacent coverages, its coverage their
\* hull, a reduce_temporal_coverage whose range contains the first files or
\* the last files of the manifest, and not all, returns and leaves the hull
\* of the remaining files as the coverage.
C28_ShrinkAtEdge ==
    (/\ ret.op = "reduce_temporal_coverage"
     /\ Adjacent(ret.before.files)
     /\ EdgeRemoval(ret.before.files, ret.time_range)
     /\ ret.before.temporal = Hull(ret.before.files))
    => /\ ret.result = "none"
       /\ heap[ret.pid][ret.oid].temporal = Hull(FilesNow)

C28_Witness ==
    /\ Reduced
    /\ Adjacent(ret.before.files)
    /\ EdgeRemoval(ret.before.files, ret.time_range)
    /\ ret.before.temporal = Hull(ret.before.files)
    /\ Len(ret.before.files) = 3
    /\ Len(FilesNow) = 2
    /\ heap[ret.pid][ret.oid].temporal # ret.before.temporal

\* C29: a reduce_temporal_coverage whose range contains none of the files
\* of the manifest, in whatever order they are and with or without
\* coverages, returns and leaves the manifest and the coverage as they were.
C29_PartialOverlapHarmless ==
    (/\ ret.op = "reduce_temporal_coverage"
     /\ \A i \in DOMAIN ret.before.files :
          KeyIsTuple(ret.before.files[i][2]) => ~FullyInside(ret.before.files[i], ret.time_range))
    => /\ ret.result = "none"
       /\ FilesNow = ret.before.files
       /\ heap[ret.pid][ret.oid].temporal = ret.before.temporal

\* the files with a coverage pair come first, in ascending order, and the
\* files without a coverage after them
ManifestOrdered(files) ==
    \A i, j \in DOMAIN files :
        i < j => /\ KeyIsTuple(files[j][2]) => KeyIsTuple(files[i][2])
                 /\ (KeyIsTuple(files[i][2]) /\ KeyIsTuple(files[j][2]))
                      => ~KeyLess(files[j][2], files[i][2])

\* C35: every add_dataset call returns, and leaves the manifest ordered by
\* coverage, the files without a coverage last.
C35_ManifestOrder ==
    ret.op = "add_dataset"
    => /\ ret.result = "none"
       /\ ManifestOrdered(heap[ret.pid][ret.oid].files)

(***************************************************************************)
(* Properties of the spatial subset.                                       *)
(***************************************************************************)
\* the computed bounds of one axis contain the range asked for and lie on
\* the grid of the axis
AxisCovered(axis, range, w) ==
    /\ w.geo_min <= range[1]
    /\ range[2] <= w.geo_max
    /\ (w.geo_min - axis.geo_min) % axis.res = 0
    /\ (w.geo_max - axis.geo_min) % axis.res = 0

\* C22: for every declared box, resolution pair, orientation and region
\* inside the box, the bounds recomputed from the index window contain the
\* region on both axes and lie on the grid of their axis.
C22_SpatialSuperset ==
    win_out # <<>>
    => /\ AxisCovered(win_args.lat, win_args.lat_range, win_out.lat)
       /\ AxisCovered(win_args.lon, win_args.lon_range, win_out.lon)

\* C23: the local entry that make_local made with a region has the bounds
\* computed from the index window as its spatial coverage.
C23_RecordedSpatial ==
    (ret.op = "make_local" /\ ret.result = "created")
    => RecordedBounds(heap[ret.pid][ret.oid].spatial) = AchievedBounds(win_args)

\* C24: after remove_data_source(entry) returned, the entry's metadata
\* record, lock record and file directory are gone and the caller's query()
\* returns no entry with that id.
C24_Removed ==
    ret.op = "remove"
    => /\ ret.id \notin DOMAIN json
       /\ ret.id \notin DOMAIN lock
       /\ ret.id \notin dirs
       /\ alive[ret.pid] => QueryResult(InitDataSources(World(ret.pid)).w, ret.id) = <<>>

\* C25: create_data_source(lock_file=True) for an id in the index whose lock
\* record is stale (its writer is dead or started at another time), the
\* entry's spatial coverage or variables differing from the request, fails
\* with 'already exists' and leaves the metadata records, the lock records
\* and the caller's entries as they were.
C25_StaleLockOtherRequest ==
    [][\A p \in Procs :
         (/\ Returned(p)
          /\ LockedCreate(ret')
          /\ ~(ret'.writer_alive /\ ret'.writer_fenced)
          /\ ~ret'.same_request)
         => /\ ret'.result = "AlreadyExists"
            /\ json' = json
            /\ lock' = lock
            /\ \A o \in DOMAIN heap'[p] :
                 o \in DOMAIN heap[p] => heap'[p][o].complete = heap[p][o].complete]_vars

\* C26: the metadata record of every entry that make_local created has in
\* its meta_info the 'uuid' that generate_uuid derives from the source id,
\* time range, region and variable names of the call, and as 'ref_uuid' the
\* 'uuid' of the source.
C26_ContentKey ==
    \A p \in Procs :
        \A m \in produced[p] :
            (m.id \in DOMAIN json /\ m.args.source \in DOMAIN json)
            => /\ Get(json[m.id].meta_info, "uuid", NoneStr)
                    = generate_uuid(m.args.source, m.args.time_range,
                                    m.args.region, m.args.var_names)
               /\ Get(json[m.id].meta_info, "ref_uuid", NoneStr)
                    = Get(json[m.args.source].meta_info, "uuid", NoneStr)

\* C30: a query() scans the directory only if the process has not scanned
\* it before in its lifetime.
C30_LoadOnce ==
    [][\A p \in Procs :
         (Returned(p) /\ ret'.op = "query" /\ ret'.scanned) => ds_none[p]]_vars

\* C38: a load with skip_broken=False that raises DataAccessError leaves
\* the index of the process empty, so that the next query() scans again.
C38_FailedStrictLoad ==
    (ret.op = "load_strict" /\ ret.result = "DataAccessError")
    => data_sources[ret.pid] = <<>>

\* C37: a process that loads the directory while another creates an entry
\* with lock_file=True never has the entry under creation in its index.
C37_NoVisibilityWindow ==
    \A d \in Range(data_sources[Reader]) : heap[Reader][d].id \notin building[Writer]

(***************************************************************************)
(* Properties of the temporal coverage.                                    *)
(***************************************************************************)
\* C13: for a coverage that is absent or has start <= end and an addition
\* with start <= end, _extend_temporal_coverage leaves the addition if the
\* coverage was absent, (current.start, addition.end) if the addition starts
\* at or after the end, (addition.start, current.end) if it ends at or before
\* the start, and the coverage as it was in any other case.
C13_Extend ==
    (/\ cov_out # <<>>
     /\ cov_out.op = "extend"
     /\ WellFormed(cov_args.time_range)
     /\ (cov_args.current # NoCov => WellFormed(cov_args.current)))
    => LET current == cov_args.current
           addition == cov_args.time_range
           out == cov_out.coverage
       IN /\ current = NoCov => out = addition
          /\ (current # NoCov /\ addition[1] >= current[2])
               => out = <<current[1], addition[2]>>
          /\ (current # NoCov /\ addition[2] <= current[1])
               => out = <<addition[1], current[2]>>
          /\ (current # NoCov /\ addition[1] < current[2] /\ addition[2] > current[1])
               => out = current

C13_Witness ==
    /\ cov_out # <<>>
    /\ cov_out.op = "extend"
    /\ cov_args.current = <<1, 2>>
    /\ cov_args.time_range = <<2, 3>>
    /\ cov_out.coverage = <<1, 3>>

\* C15: for a coverage (s, e) and a removal (a, b), _reduce_temporal_coverage
\* leaves (s, a) when b = e and a > s, (b, e) when a = s and b < e, and the
\* coverage as it was when the removal shares no boundary with it.
C15_Reduce ==
    (/\ cov_out # <<>>
     /\ cov_out.op = "reduce"
     /\ cov_args.current # NoCov)
    => LET s == cov_args.current[1]
           e == cov_args.current[2]
           a == cov_args.time_range[1]
           b == cov_args.time_range[2]
           out == cov_out.coverage
       IN /\ (b = e /\ a > s) => out = <<s, a>>
          /\ (a = s /\ b < e) => out = <<b, e>>
          /\ ({a, b} \cap {s, e} = {}) => out = <<s, e>>

C15_Witness ==
    /\ cov_out # <<>>
    /\ cov_out.op = "reduce"
    /\ cov_args.current = <<0, 3>>
    /\ cov_args.time_range = <<2, 3>>
    /\ cov_out.coverage = <<0, 2>>

\* C16: _reduce_temporal_coverage with a removal equal to the whole coverage
\* leaves no coverage.
C16_ReduceToEmpty ==
    (/\ cov_out # <<>>
     /\ cov_out.op = "reduce"
     /\ cov_args.current # NoCov
     /\ cov_args.time_range = cov_args.current)
    => cov_out.coverage = NoCov

\* C14: on an entry worked on with add_dataset, update_temporal_coverage and
\* reduce_temporal_coverage, a temporal coverage that is present has
\* start <= end and contains the coverage pair of every file of the manifest.
C14_CoverageInvariant ==
    \A p \in Procs : \A o \in held[p] :
        LET e == heap[p][o]
        IN e.temporal # NoCov
             => /\ WellFormed(e.temporal)
                /\ \A i \in DOMAIN e.files :
                      Len(e.files[i][2]) = 2
                        => /\ e.temporal[1] <= e.files[i][2][1]
                           /\ e.files[i][2][2] <= e.temporal[2]

\* C17: from_json_dict(to_json_dict(entry)) has the id, the files (paths,
\* order, coverage of each), the temporal coverage, the variables and the
\* meta_info of the entry.
C17_RoundTrip ==
    \A p \in Procs : \A o \in held[p] :
        LET e == heap[p][o]
            r == from_json_dict(to_json_dict(e))
        IN /\ ~FromJsonRaises(to_json_dict(e))
           /\ r.id = e.id
           /\ r.files = e.files
           /\ r.temporal = e.temporal
           /\ r.variables = e.variables
           /\ r.meta = e.meta

(***************************************************************************)
(* Properties of generate_uuid.                                            *)
(***************************************************************************)
\* the two argument tuples name the same request: the same ref_id, time
\* range and region, and the same set of variable names
SameRequest(a, b) ==
    /\ a.ref_id = b.ref_id
    /\ a.time_range = b.time_range
    /\ a.region = b.region
    /\ Range(a.var_names.names) = Range(b.var_names.names)

C10_KeyDiscrimination ==
    (key_out # <<>> /\ ~SameRequest(key_args[1], key_args[2]))
        => key_out[1] # key_out[2]

(***************************************************************************)
(* A run of _make_local, file by file: which files it takes, what it       *)
(* leaves registered when a step fails, and what it tells the monitor.     *)
(***************************************************************************)
GeoAttrs == {"geospatial_lat_min", "geospatial_lat_max", "geospatial_lon_min",
             "geospatial_lon_max", "geospatial_lat_resolution", "geospatial_lon_resolution"}

\* a geospatial attribute of a remote file: a number, no attribute at all,
\* the float NaN, or the string 'nan'
AttrValues == {"number", "absent", "NaN", "'nan'"}

GoodAttrs == [attr \in GeoAttrs |-> "number"]

\* the attribute sets of a remote file with at most one value that is not a
\* number
RemoteAttrs ==
    {GoodAttrs} \cup {[GoodAttrs EXCEPT ![attr] = v] :
                         attr \in GeoAttrs, v \in AttrValues \ {"number"}}

\* LocalDataSource._get_harmonized_coordinate_value: a missing attribute
\* reads as the string 'nan', and float() of that string is NaN
get_harmonized_coordinate_value(attrs, attr_name) ==
    LET value == IF attrs[attr_name] = "absent" THEN "'nan'" ELSE attrs[attr_name]
    IN IF value = "'nan'" THEN "NaN" ELSE value

isnan(x) == x = "NaN"

\* the forms of a file's coverage: a pair, a single timestamp, none
Covs == {<<0, 1>>, <<1, 3>>, <<1>>, NoCov}

SyncPaths == <<(<<"S", "/", "f1">>), (<<"S", "/", "f2">>)>>

\* the manifests LocalDataSource.__init__ accepts without a declared
\* temporal coverage
SourceConstructible(files) ==
    \/ Len(files) = 0
    \/ files[1][2] = NoCov
    \/ Len(files[1][2]) = Len(files[Len(files)][2])

SourceManifests ==
    {m \in UNION {{[i \in 1..n |-> <<SyncPaths[i], cov[i]>>] : cov \in [1..n -> Covs]} :
                    n \in 0..Len(SyncPaths)} : SourceConstructible(m)}

SyncSteps == {"remote_open", "local_open", "write"}

\* files: the source manifest; time_range, region, var_names: the request;
\* attrs: the geospatial attributes of the remote files; fail: the file and the step at which the file system
\* fails (at = 0: nowhere); cancel: the number of files after which the
\* caller cancels (Len(files): never); raises: whether a call on a
\* cancelled child monitor raises Cancellation
SyncArgs ==
    UNION {[files : {m}, time_range : {NoCov, <<0, 1>>, <<0, 3>>},
            region : {NoRegion, TheRegion}, var_names : {VarNone},
            attrs : RemoteAttrs,
            fail : [at : 0..Len(m), step : SyncSteps],
            cancel : 0..Len(m), raises : BOOLEAN] \cup
           [files : {m}, time_range : {NoCov, <<0, 1>>, <<0, 3>>},
            region : {NoRegion}, var_names : {VarList(<<"u">>)},
            attrs : {GoodAttrs},
            fail : [at : 0..Len(m), step : SyncSteps],
            cancel : 0..Len(m), raises : BOOLEAN] : m \in SourceManifests}

\* the test of _make_local on a file's coverage
MakeLocalSelects(coverage, time_range) ==
    /\ KeyIsTuple(coverage)
    /\ \/ time_range = NoCov
       \/ (coverage[1] >= time_range[1] /\ coverage[2] <= time_range[2])

\* the test of open_dataset on a file's coverage
OpenDatasetSelects(coverage, time_range) ==
    IF time_range # NoCov
    THEN /\ coverage # NoCov
         /\ \/ KeyIsTuple(coverage) /\ coverage[1] >= time_range[1]
                                    /\ coverage[2] <= time_range[2]
            \/ ~KeyIsTuple(coverage) /\ time_range[1] <= coverage[1]
                                     /\ coverage[1] < time_range[2]
    ELSE TRUE

\* the paths open_dataset resolves
open_dataset_paths(files, time_range) ==
    {files[i][1] : i \in {j \in DOMAIN files : OpenDatasetSelects(files[j][2], time_range)}}

\* process_region after the attributes were read: the region is given and
\* none of the six values is NaN
ProcessRegion_bounds_only(a) ==
    /\ a.region # NoRegion
    /\ \A attr \in {"geospatial_lat_min", "geospatial_lat_max", "geospatial_lon_min",
                     "geospatial_lon_max"} :
         ~isnan(get_harmonized_coordinate_value(a.attrs, attr))

ProcessRegion(a) ==
    /\ a.region # NoRegion
    /\ \A attr \in GeoAttrs : ~isnan(get_harmonized_coordinate_value(a.attrs, attr))

\* a call on the child monitor of file i raises Cancellation
ChannelRaises(a, i) == a.raises /\ i > a.cancel

\* local_ds.add_dataset on the i-th file; late collects the files
\* registered after the caller cancelled
Register(st, a, o, i) ==
    [st EXCEPT !.w = add_dataset(st.w, o, LocalFilePath(st.w.heap[o].id, a.files[i][1]),
                                 a.files[i][2], FALSE).w,
               !.late = IF i > a.cancel THEN @ \cup {i} ELSE @]

Note(st, event) == [st EXCEPT !.events = Append(@, event)]

Raise(st, err) == [st EXCEPT !.err = err]

\* the finally clause: both stores closed, the local file registered
Finally(st, a, o, i) ==
    Register([st EXCEPT !.open = @ \ {<<"remote", i>>, <<"local", i>>}], a, o, i)

\* the variables of the i-th file are stored, then its bounds rewritten
StoreVariables(st, a, o, i) ==
    IF a.fail.at = i /\ a.fail.step = "write"
    THEN Raise(Finally(st, a, o, i), "OSError")
    ELSE Note(Finally([st EXCEPT !.written = @ \cup {i},
                                 !.rewritten = IF ProcessRegion(a) THEN @ \cup {i} ELSE @],
                      a, o, i),
              <<"child_done", i>>)

\* the try block after both stores were opened
Subset(st, a, o, i) ==
    IF ChannelRaises(a, i)
    THEN Raise(Finally(st, a, o, i), "Cancellation")
    ELSE StoreVariables(Note([st EXCEPT !.sliced = IF ProcessRegion(a) THEN @ \cup {i} ELSE @],
                             <<"child_start", i>>),
                        a, o, i)

\* the branch `if region or var_names` on the i-th file
SubsetFile(st, a, o, i) ==
    IF a.fail.at = i /\ a.fail.step = "remote_open" THEN Raise(st, "OSError")
    ELSE IF a.fail.at = i /\ a.fail.step = "local_open" THEN Raise(st, "OSError")
    ELSE Subset([st EXCEPT !.open = @ \cup {<<"remote", i>>, <<"local", i>>}], a, o, i)

\* the branch of shutil.copy on the i-th file
CopyFile(st, a, o, i) ==
    IF a.fail.at = i /\ a.fail.step = "write" THEN Raise(st, "OSError")
    ELSE IF ChannelRaises(a, i)
    THEN Raise(Register([st EXCEPT !.written = @ \cup {i}], a, o, i), "Cancellation")
    ELSE Note(Register([st EXCEPT !.written = @ \cup {i}], a, o, i), <<"child_done", i>>)

\* one turn of the loop over self._files.items()
SyncFile(st, a, o, i) ==
    IF ~MakeLocalSelects(a.files[i][2], a.time_range) THEN Note(st, <<"child", i>>)
    ELSE IF a.region # NoRegion \/ VarTruthy(a.var_names)
    THEN SubsetFile(Note([st EXCEPT !.selected = @ \cup {i}], <<"child", i>>), a, o, i)
    ELSE CopyFile(Note([st EXCEPT !.selected = @ \cup {i}], <<"child", i>>), a, o, i)

RECURSIVE SyncLoop(_, _, _, _)
SyncLoop(st, a, o, i) ==
    IF i > Len(a.files) \/ st.err # "none" THEN st
    ELSE SyncLoop(SyncFile(st, a, o, i), a, o, i + 1)

\* the local entry make_local creates for the run
SyncEntry(a) ==
    create_data_source([json |-> EmptyMap, lock |-> EmptyMap, dirs |-> {}, heap |-> EmptyMap,
                        ds |-> <<>>, none |-> TRUE],
                       1, 1, [alive |-> <<TRUE>>, start_time |-> <<1>>], <<"L">>, a.region,
                       NoneStr, a.time_range, a.var_names, EmptyMap, FALSE)

SyncStart(made_ds) ==
    [w |-> [made_ds.w EXCEPT !.dirs = @ \cup {made_ds.w.heap[made_ds.oid].id}], o |-> made_ds.oid, err |-> "none", events |-> <<(<<"start">>)>>,
     open |-> {}, selected |-> {}, written |-> {}, sliced |-> {}, rewritten |-> {}, late |-> {}]

SyncEnd(st) == IF st.err = "none" THEN Note(st, <<"done">>) ELSE st

\* LocalDataSource._make_local
SyncRun(a) ==
    SyncEnd(SyncLoop(SyncStart(SyncEntry(a)), a, SyncEntry(a).oid, 1))

InitSync ==
    /\ StoreInit({EmptyMap})
    /\ key_args = <<>>
    /\ key_out = <<>>
    /\ cov_args = <<>>
    /\ cov_out = <<>>
    /\ win_args = <<>>
    /\ win_out = <<>>
    /\ sync_args \in SyncArgs
    /\ sync_out = <<>>
    /\ open_workspaces = {}
    /\ ws_ret = NoWsRet

Sync ==
    /\ sync_out = <<>>
    /\ sync_out' = [run |-> SyncRun(sync_args),
                    paths |-> open_dataset_paths(sync_args.files, sync_args.time_range)]
    /\ UNCHANGED <<sync_args, storeVars, keyVars, covVars, saveVars, winVars, wsVars>>

NextSync == Sync

SpecSync == InitSync /\ [][NextSync]_vars

(***************************************************************************)
(* Properties of a run of _make_local.                                     *)
(***************************************************************************)
\* the paths of the local entry's manifest, in memory and in its record
SyncManifest(run) == {f[1] : f \in Range(run.w.heap[run.o].files)}

SyncRecord(run) == {f[1] : f \in Range(run.w.json[run.w.heap[run.o].id].files)}

SyncLocalPath(run, a, i) == LocalFilePath(run.w.heap[run.o].id, a.files[i][1])

\* the run met neither a failing step nor a raising monitor
Undisturbed(a) == a.fail.at = 0 /\ (~a.raises \/ a.cancel = Len(a.files))

\* C31: the remote store of a file is closed on every way out of the
\* subsetting branch, and a local file whose writing failed after it was
\* opened is in the manifest neither in memory nor in the record.
C31_FailedWriteUnregistered ==
    (/\ sync_out # <<>>
     /\ sync_args.fail.at \in sync_out.run.selected
     /\ sync_args.fail.step = "write"
     /\ sync_args.region # NoRegion \/ VarTruthy(sync_args.var_names)
     /\ sync_out.run.err = "OSError")
        => /\ sync_out.run.open = {}
           /\ SyncLocalPath(sync_out.run, sync_args, sync_args.fail.at)
                  \notin SyncManifest(sync_out.run) \cup SyncRecord(sync_out.run)

\* C32: no file is registered after the caller cancelled.
C32_CooperativeCancellation ==
    sync_out # <<>> => sync_out.run.late = {}

\* what the selection rule asks of a coverage
RuleSelects(coverage, time_range) ==
    \/ time_range = NoCov
    \/ /\ Len(coverage) = 2
       /\ coverage[1] >= time_range[1] /\ coverage[2] <= time_range[2]
    \/ /\ Len(coverage) = 1
       /\ time_range[1] <= coverage[1] /\ coverage[1] < time_range[2]

\* C33: _make_local and open_dataset take a file with a coverage pair iff
\* there is no time range or the pair lies inside it, a file with a single
\* timestamp iff there is no time range or range.start <= t < range.end, and
\* every file when there is no time range.
C33_CandidateSelection ==
    (sync_out # <<>> /\ Undisturbed(sync_args))
        => \A i \in DOMAIN sync_args.files :
             /\ i \in sync_out.run.selected
                  <=> RuleSelects(sync_args.files[i][2], sync_args.time_range)
             /\ sync_args.files[i][1] \in sync_out.paths
                  <=> RuleSelects(sync_args.files[i][2], sync_args.time_range)

\* C34: with a region asked for and one of the four bounds or two
\* resolutions of the remote files missing or NaN, a file taken by the run
\* is written whole, keeps its bound attributes, raises nothing and is
\* registered.
C34_DegenerateMetadata ==
    (/\ sync_out # <<>>
     /\ sync_args.region # NoRegion
     /\ sync_args.attrs # GoodAttrs
     /\ Undisturbed(sync_args))
        => /\ sync_out.run.err = "none"
           /\ sync_out.run.sliced = {}
           /\ sync_out.run.rewritten = {}
           /\ \A i \in sync_out.run.selected :
                /\ i \in sync_out.run.written
                /\ SyncLocalPath(sync_out.run, sync_args, i)
                       \in SyncManifest(sync_out.run) \cap SyncRecord(sync_out.run)

C34_Witness ==
    /\ sync_out # <<>>
    /\ sync_args.region # NoRegion
    /\ sync_args.attrs["geospatial_lon_resolution"] = "absent"
    /\ Undisturbed(sync_args)
    /\ sync_out.run.selected = {1, 2}
    /\ sync_out.run.written = {1, 2}
    /\ sync_out.run.sliced = {}
    /\ Cardinality(SyncRecord(sync_out.run)) = 2

\* C36: a run that returns tells the outer monitor start first and done
\* once and last, and every file of the manifest, taken or passed over, has
\* its child monitor told done.
C36_ProgressProtocol ==
    (sync_out # <<>> /\ sync_out.run.err = "none")
        => /\ sync_out.run.events[1] = <<"start">>
           /\ sync_out.run.events[Len(sync_out.run.events)] = <<"done">>
           /\ Cardinality({k \in DOMAIN sync_out.run.events :
                             sync_out.run.events[k] = <<"done">>}) = 1
           /\ \A i \in DOMAIN sync_args.files :
                <<"child_done", i>> \in Range(sync_out.run.events)

(***************************************************************************)
(* FSWorkspaceManager: the open workspaces of one manager.  A workspace is *)
(* named by its resolved base directory.  What Workspace.open, the file    *)
(* system and Workspace.is_modified answer is an input of each call.       *)
(***************************************************************************)
ResolveDir == <<"/", "r">>

BaseDirs == {<<"a">>, <<"/", "r", "a">>, <<"/", "r", "b">>, <<"/", "c">>}

\* FSWorkspaceManager.resolve_path
resolve_path(dir_path) ==
    IF dir_path[1] = "/" THEN dir_path ELSE ResolveDir \o dir_path

\* FSWorkspaceManager.get_workspace; opens: Workspace.open returns
get_workspace(open_ws, base_dir, open, opens) ==
    IF resolve_path(base_dir) \in open_ws
    THEN [open_ws |-> open_ws, err |-> "none", workspace |-> resolve_path(base_dir)]
    ELSE IF ~open \/ ~opens
    THEN [open_ws |-> open_ws, err |-> "WorkspaceError", workspace |-> <<>>]
    ELSE [open_ws |-> open_ws \cup {resolve_path(base_dir)}, err |-> "none",
          workspace |-> resolve_path(base_dir)]

WsCall(op, base_dir, err, saved, closed) ==
    ws_ret' = [op |-> op, base_dir |-> base_dir, err |-> err, before |-> open_workspaces,
               saved |-> saved, closed |-> closed]

\* manager.get_workspace(base_dir, open) and manager.open_workspace(base_dir)
GetWorkspace(base_dir, open, opens) ==
    /\ open_workspaces' = get_workspace(open_workspaces, base_dir, open, opens).open_ws
    /\ WsCall(IF open THEN "open_workspace" ELSE "get_workspace", base_dir,
              get_workspace(open_workspaces, base_dir, open, opens).err, {}, {})

\* manager.new_workspace(base_dir, save); is_dir: the workspace directory
\* exists
NewWorkspace(base_dir, save, is_dir) ==
    IF resolve_path(base_dir) \in open_workspaces \/ is_dir
    THEN /\ UNCHANGED open_workspaces
         /\ WsCall("new_workspace", base_dir, "WorkspaceError", {}, {})
    ELSE /\ open_workspaces' = open_workspaces \cup {resolve_path(base_dir)}
         /\ WsCall("new_workspace", base_dir, "none",
                   IF save THEN {resolve_path(base_dir)} ELSE {}, {})

\* manager.close_workspace(base_dir, save)
close_workspace(open_ws, base_dir) == open_ws \ {resolve_path(base_dir)}

CloseWorkspace(base_dir, save, is_modified) ==
    /\ open_workspaces' = close_workspace(open_workspaces, base_dir)
    /\ WsCall("close_workspace", base_dir, "none",
              IF save /\ is_modified THEN {resolve_path(base_dir)} \cap open_workspaces ELSE {},
              {resolve_path(base_dir)} \cap open_workspaces)

\* manager.close_all_workspaces(save)
CloseAllWorkspaces(save) ==
    /\ open_workspaces' = {}
    /\ WsCall("close_all_workspaces", <<>>, "none",
              IF save THEN open_workspaces ELSE {}, open_workspaces)

\* manager.save_workspace(base_dir)
SaveWorkspace(base_dir, is_modified) ==
    /\ open_workspaces' = get_workspace(open_workspaces, base_dir, FALSE, FALSE).open_ws
    /\ WsCall("save_workspace", base_dir,
              get_workspace(open_workspaces, base_dir, FALSE, FALSE).err,
              IF get_workspace(open_workspaces, base_dir, FALSE, FALSE).err = "none"
                 /\ is_modified
              THEN {resolve_path(base_dir)} ELSE {}, {})

\* manager.save_all_workspaces(): the values of the old dictionary are
\* saved, and self._open_workspaces is bound to a new, empty dictionary
save_all_workspaces(open_ws) == {}

SaveAllWorkspaces ==
    /\ open_workspaces' = save_all_workspaces(open_workspaces)
    /\ WsCall("save_all_workspaces", <<>>, "none", open_workspaces, {})

\* manager.delete_workspace(base_dir); is_dir: the workspace directory
\* exists
DeleteWorkspace(base_dir, is_dir) ==
    /\ open_workspaces' = close_workspace(open_workspaces, base_dir)
    /\ WsCall("delete_workspace", base_dir, IF is_dir THEN "none" ELSE "WorkspaceError", {},
              {resolve_path(base_dir)} \cap open_workspaces)

InitWs ==
    /\ StoreInit({EmptyMap})
    /\ key_args = <<>>
    /\ key_out = <<>>
    /\ cov_args = <<>>
    /\ cov_out = <<>>
    /\ win_args = <<>>
    /\ win_out = <<>>
    /\ sync_args = <<>>
    /\ sync_out = <<>>
    /\ open_workspaces = {}
    /\ ws_ret = NoWsRet

NextWs ==
    /\ UNCHANGED <<storeVars, keyVars, covVars, saveVars, winVars, syncVars>>
    /\ \E base_dir \in BaseDirs, a, b \in BOOLEAN :
         \/ GetWorkspace(base_dir, a, b)
         \/ NewWorkspace(base_dir, a, b)
         \/ CloseWorkspace(base_dir, a, b)
         \/ CloseAllWorkspaces(a)
         \/ SaveWorkspace(base_dir, a)
         \/ SaveAllWorkspaces
         \/ DeleteWorkspace(base_dir, a)

SpecWs == InitWs /\ [][NextWs]_vars

\* C39: save_workspace and save_all_workspaces leave the open workspaces as
\* they were: get_workspace still returns every workspace it returned
\* before the call.
C39_SavingDoesNotClose ==
    ws_ret.op \in {"save_workspace", "save_all_workspaces"}
        => \A d \in ws_ret.before :
             get_workspace(open_workspaces, d, FALSE, FALSE).err = "none"

====
